---------------------------- MODULE Spec2Model ----------------------------
(***************************************************************************)
(* LEGENDO SYNC: the LegendoSync class (sessions, assetCache, encrypt /    *)
(* decrypt, executeAI, syncAssets, getSession, cleanup) and the cleanup    *)
(* timer of the server module.                                             *)
(*                                                                         *)
(* Time is the reading of Date.now() in milliseconds.  A handler of the    *)
(* single-threaded event loop is one action; executeAI is two actions,     *)
(* split at its await on processCommand.                                   *)
(***************************************************************************)
EXTENDS Integers, Sequences, FiniteSets, TLC

(***************************************************************************)
(* Bounds of the model.                                                    *)
(***************************************************************************)
MaxLen == 2        \* longest JavaScript string handed to encrypt directly
MaxCalls == 2      \* executeAI and syncAssets calls in one run
MaxTicks == 2      \* clock steps in one run
MaxTimerTicks == 8 \* clock steps in one run of the timer specification
MaxLate == 1       \* clock steps a due timer callback may be delayed
MaxServerTicks == 1 \* clock steps of the servers in one run, beyond waiting timers
MaxRequests == 12   \* requests of the first address that the rate limiter is asked about
MaxOtherIp == 1     \* requests that come from the second address after these
MaxLimiterTicks == 2 \* clock steps in one run of the rate limiter specification
MaxLimitedCalls == 1 \* of the requests behind the rate limiter, those that reach executeAI or PayPal
MaxSignals == 2    \* shutdown signals the process receives in one run
MaxShutdownTicks == 2 \* clock steps of a shutdown run, beyond waiting timers

(***************************************************************************)
(* Program constants.                                                      *)
(***************************************************************************)
CleanupIntervalMs == 1800000
DefaultMaxAgeMs == 3600000

\* One clock step of the model: half a cleanup interval.
TickMs == CleanupIntervalMs \div 2

(***************************************************************************)
(* JavaScript strings are sequences of UTF-16 code units.  "a" is an ASCII *)
(* unit, "H" a high surrogate, "L" a low surrogate; "R" stands for U+FFFD,  *)
(* which the decoder can produce.                                          *)
(***************************************************************************)
CodeUnits == {"a", "H", "L"}

RECURSIVE SeqsUpTo(_, _)
SeqsUpTo(S, n) ==
  IF n = 0 THEN {<<>>}
  ELSE LET shorter == SeqsUpTo(S, n - 1)
       IN shorter \cup {Append(s, x) : s \in {t \in shorter : Len(t) = n - 1}, x \in S}

JsStrings == SeqsUpTo(CodeUnits, MaxLen)

\* No unpaired surrogate.
RECURSIVE WellFormed(_)
WellFormed(s) ==
  IF s = <<>> THEN TRUE
  ELSE IF Head(s) = "H"
       THEN Len(s) >= 2 /\ s[2] = "L" /\ WellFormed(Tail(Tail(s)))
       ELSE Head(s) # "L" /\ WellFormed(Tail(s))

\* cipher.update(text, 'utf8', ...): the UTF-8 encoding of the string.  A
\* surrogate pair is one four-byte scalar ("P"); an unpaired surrogate
\* is encoded as U+FFFD.
RECURSIVE Utf8Encode(_)
Utf8Encode(s) ==
  IF s = <<>> THEN <<>>
  ELSE IF Head(s) = "H" /\ Len(s) >= 2 /\ s[2] = "L"
       THEN <<"P">> \o Utf8Encode(Tail(Tail(s)))
       ELSE IF Head(s) \in {"H", "L"}
            THEN <<"R">> \o Utf8Encode(Tail(s))
            ELSE <<Head(s)>> \o Utf8Encode(Tail(s))

\* decipher.update(..., 'hex', 'utf8'): UTF-8 bytes back to a string.
RECURSIVE Utf8Decode(_)
Utf8Decode(b) ==
  IF b = <<>> THEN <<>>
  ELSE IF Head(b) = "P"
       THEN <<"H", "L">> \o Utf8Decode(Tail(b))
       ELSE <<Head(b)>> \o Utf8Decode(Tail(b))

(***************************************************************************)
(* Assets.  An asset is a JSON value (here: a string) or an object that    *)
(* JSON.stringify cannot serialise (a circular structure), for which it    *)
(* throws.                                                                 *)
(***************************************************************************)
Circular == <<"circular">>

\* JSON.stringify escapes an unpaired surrogate as \uXXXX ("h", "l"):
\* its output is always well formed.
RECURSIVE JsonEscape(_)
JsonEscape(s) ==
  IF s = <<>> THEN <<>>
  ELSE IF Head(s) = "H" /\ Len(s) >= 2 /\ s[2] = "L"
       THEN <<"H", "L">> \o JsonEscape(Tail(Tail(s)))
       ELSE IF Head(s) = "H" THEN <<"h">> \o JsonEscape(Tail(s))
       ELSE IF Head(s) = "L" THEN <<"l">> \o JsonEscape(Tail(s))
       ELSE <<Head(s)>> \o JsonEscape(Tail(s))

StringifyThrows(asset) == asset = Circular

JsonStringify(asset) == <<"q">> \o JsonEscape(asset) \o <<"q">>

\* crypto.createHash('sha256').update(text).digest('hex')
Sha256(text) == <<"sha256", text>>

(***************************************************************************)
(* The cipher.  crypto.createCipher(algorithm, password) derives the key   *)
(* AND the nonce from the password; it takes no iv argument.               *)
(***************************************************************************)
Keys == {"k1", "k2"}
Ivs == {"iv1", "iv2"}

ToHex(bytes) == <<"hex", bytes>>
FromHex(hex) == hex[2]

\* EVP_BytesToKey: key and nonce, both a function of the password alone.
DeriveKeyIv(password) == <<"kdf", password>>

GcmCipherText(kiv, bytes) == <<"ct", kiv, bytes>>
GcmTag(kiv, ct) == <<"tag", kiv, ct>>

\* A cipher whose last update() output is lost (cipher.final() left out).
DropLast(bytes) == IF bytes = <<>> THEN <<>> ELSE SubSeq(bytes, 1, Len(bytes) - 1)
encryptWithoutFinal(key, iv, text) ==
  LET kiv == DeriveKeyIv(key)
      ct == GcmCipherText(kiv, DropLast(Utf8Encode(text)))
  IN [encrypted |-> ToHex(ct), iv |-> ToHex(iv), authTag |-> ToHex(GcmTag(kiv, ct))]

encrypt(key, iv, text) ==
  LET kiv == DeriveKeyIv(key)
      ct == GcmCipherText(kiv, Utf8Encode(text))
  IN [encrypted |-> ToHex(ct), iv |-> ToHex(iv), authTag |-> ToHex(GcmTag(kiv, ct))]

\* The outcome of a call: a returned string, or a thrown error.
Returned(text) == [ok |-> TRUE, text |-> text]
Thrown == [ok |-> FALSE, text |-> <<>>]

decrypt(key, encryptedData) ==
  LET kiv == DeriveKeyIv(key)
      tag == FromHex(encryptedData.authTag)
      ct == FromHex(encryptedData.encrypted)
  IN IF tag = GcmTag(kiv, ct)
     THEN IF ct[2] = kiv THEN Returned(Utf8Decode(ct[3])) ELSE Returned(<<"R">>)
     ELSE Thrown


(***************************************************************************)
(* Identifiers.  crypto.randomUUID() never repeats (the n-th call returns  *)
(* the n-th UUID); a caller may pass any string as options.sessionId: one  *)
(* of its own, or an id the program has returned before.                   *)
(***************************************************************************)
NoId == <<"none", 0>>
CustomId == <<"custom", 1>>
Uuid(n) == <<"uuid", n>>

\* A call makes at most three randomUUID() calls in this model.
IdUniverse == {Uuid(n) : n \in 1..(3 * MaxCalls)} \cup {CustomId}

\* An id generator that repeats itself.
randomUUIDStuck(ctr) == Uuid(1)

randomUUID(ctr) == Uuid(ctr + 1)

\* new Date().toISOString() and new Date(timestamp).getTime()
ToISOString(ms) == <<"iso", ms>>
DateGetTime(iso) == iso[2]

(***************************************************************************)
(* A JavaScript Map: its entries in insertion order.  set() on a present   *)
(* key replaces the value in place; an iterator that meets a deleted       *)
(* entry goes on with the entry that followed it.                          *)
(***************************************************************************)
MapKeys(m) == {m[i].key : i \in 1..Len(m)}
MapHas(m, k) == k \in MapKeys(m)
MapIndex(m, k) == CHOOSE i \in 1..Len(m) : m[i].key = k
MapGet(m, k) == m[MapIndex(m, k)].value
\* A set() that keeps the value of a present key.
MapSetKeepOld(m, k, v) ==
  IF k \in {m[i].key : i \in 1..Len(m)} THEN m ELSE Append(m, [key |-> k, value |-> v])
MapSet(m, k, v) ==
  IF MapHas(m, k)
  THEN [m EXCEPT ![MapIndex(m, k)] = [key |-> k, value |-> v]]
  ELSE Append(m, [key |-> k, value |-> v])
MapDeleteAt(m, i) == SubSeq(m, 1, i - 1) \o SubSeq(m, i + 1, Len(m))

VARIABLES
  now,            \* Date.now()
  encryptionKey,  \* this.encryptionKey
  cipherApi,      \* "legacy": crypto.createCipher exists; "removed": it does not
  sessions,       \* this.sessions
  assetCache,     \* this.assetCache
  uuidCtr,        \* crypto.randomUUID() calls made so far
  pending,        \* executeAI calls suspended at `await this.processCommand`
  timerDue,       \* when the setInterval callback is next due
  resp,           \* what the last operation returned to its caller
  returns,        \* per id: how often a store operation has returned it
  calls,          \* executeAI and syncAssets calls, and HTTP requests that
                  \* wait for a callback, made so far
  running,        \* the server module the process runs
  requireApiKey,  \* process.env.REQUIRE_API_KEY === 'true' (index.js)
  inflight,       \* HTTP requests whose handler waits for a callback
  sdkCalls,       \* the calls made to the PayPal SDK so far
  answered,       \* per waiting request: the HTTP responses sent to it
  syncIds,        \* the syncIds the index.js server has returned
  rateLimiter,    \* the records the RateLimiterMemory keeps, per key
  requestLog,     \* the requests the rate limiter has been asked about
  proc            \* the process: signals received, shutdown timers, exit

vars == <<now, encryptionKey, cipherApi, sessions, assetCache, uuidCtr,
          pending, timerDue, resp, returns, calls,
          running, requireApiKey, inflight, sdkCalls, answered, syncIds,
          rateLimiter, requestLog, proc>>

\* The state of the HTTP layer of the two servers.
serverVars == <<running, requireApiKey, inflight, sdkCalls, answered, syncIds>>

\* The state of the process and of the rate limiter in front of the routes.
hostVars == <<rateLimiter, requestLog, proc>>

(***************************************************************************)
(* cleanup(maxAge)                                                         *)
(***************************************************************************)
\* The maxAge arguments a caller of the method passes.
MaxAges == {0, TickMs}

\* An expiry test that counts an entry of age exactly maxAge as expired.
ExpiredAtAge(timestamp, t, maxAge) == t - timestamp[2] >= maxAge

\* now - new Date(entry.timestamp).getTime() > maxAge
Expired(timestamp, t, maxAge) == t - DateGetTime(timestamp) > maxAge

\* A sweep over an index that moves on after a deletion, and so skips the
\* entry that followed the deleted one.
RECURSIVE sweepFromSkipping(_, _, _, _)
sweepFromSkipping(m, i, t, maxAge) ==
  IF i > Len(m) THEN m
  ELSE IF t - m[i].value.timestamp[2] > maxAge
       THEN sweepFromSkipping(SubSeq(m, 1, i - 1) \o SubSeq(m, i + 1, Len(m)), i + 1, t, maxAge)
       ELSE sweepFromSkipping(m, i + 1, t, maxAge)

\* for (const [id, entry] of map.entries()) if (expired) map.delete(id)
RECURSIVE sweepFrom(_, _, _, _)
sweepFrom(m, i, t, maxAge) ==
  IF i > Len(m) THEN m
  ELSE IF Expired(m[i].value.timestamp, t, maxAge)
       THEN sweepFrom(MapDeleteAt(m, i), i, t, maxAge)
       ELSE sweepFrom(m, i + 1, t, maxAge)

sweep(m, t, maxAge) == sweepFrom(m, 1, t, maxAge)

\* The cleanup call, if any, that was the operation before this one.
NoCleanup == [maxAge |-> -1, at |-> -1]
LastCleanup ==
  IF resp.op = "cleanup" THEN [maxAge |-> resp.maxAge, at |-> resp.at] ELSE NoCleanup

\* A cleanup that sweeps the sessions and forgets the asset cache.
cleanupSessionsOnly(maxAge) ==
  /\ sessions' = sweep(sessions, now, maxAge)
  /\ assetCache' = assetCache
  /\ resp' = [op |-> "cleanup", maxAge |-> maxAge, at |-> now, after |-> LastCleanup,
              activeSessions |-> Len(sessions'), cachedAssets |-> Len(assetCache')]
  /\ UNCHANGED <<now, encryptionKey, cipherApi, uuidCtr, pending, returns, calls>>
  /\ UNCHANGED serverVars

\* The response records what the pass logs and, in `after`, the cleanup call
\* it directly follows (not in the program).
cleanup(maxAge) ==
  /\ sessions' = sweep(sessions, now, maxAge)
  /\ assetCache' = sweep(assetCache, now, maxAge)
  /\ resp' = [op |-> "cleanup", maxAge |-> maxAge, at |-> now, after |-> LastCleanup,
              activeSessions |-> Len(sessions'), cachedAssets |-> Len(assetCache')]
  /\ UNCHANGED <<now, encryptionKey, cipherApi, uuidCtr, pending, returns, calls>>
  /\ UNCHANGED serverVars

\* A call of the public method by a user of the class.
Cleanup ==
  /\ \E maxAge \in MaxAges :
       /\ cleanup(maxAge)
       /\ UNCHANGED timerDue
  /\ UNCHANGED hostVars

\* setInterval(() => legendoSync.cleanup(), 1800000): the callback runs
\* when due or later, and is due again one interval after it ran.
TimerFire ==
  /\ now >= timerDue
  /\ cleanup(DefaultMaxAgeMs)
  /\ timerDue' = now + CleanupIntervalMs
  /\ UNCHANGED hostVars

tick ==
  /\ now' = now + TickMs
  /\ UNCHANGED <<encryptionKey, cipherApi, sessions, assetCache, uuidCtr,
                 pending, timerDue, resp, returns, calls>>
  /\ UNCHANGED serverVars

\* The clock advances.
Tick ==
  /\ now < MaxTicks * TickMs
  /\ tick
  /\ UNCHANGED hostVars

\* The clock advances; a due timer callback is at most MaxLate steps late.
TickTimer ==
  /\ now < MaxTimerTicks * TickMs
  /\ now + TickMs <= timerDue + MaxLate * TickMs
  /\ tick
  /\ UNCHANGED hostVars

(***************************************************************************)
(* syncAssets(assets)                                                      *)
(***************************************************************************)
EncryptThrows(api) == api = "removed"

\* Return counts saturate at 2: never, once, more than once.
Bump(n) == IF n < 2 THEN n + 1 ELSE 2

\* One pass of the loop body for one asset; iv is what crypto.randomBytes(16)
\* returns in that pass.  st carries assetCache, the randomUUID() count,
\* the results pushed so far and the return counts.  The entry's src field
\* is not in the program: it records the asset the entry was made from.
syncOne(asset, iv, st, key, api, t) ==
  IF StringifyThrows(asset) \/ EncryptThrows(api)
  THEN [st EXCEPT !.results = Append(@, [status |-> "failed", asset |-> asset])]
  ELSE LET encryptedAsset == encrypt(key, iv, JsonStringify(asset))
           assetId == randomUUID(st.ctr)
           hash == Sha256(JsonStringify(asset))
       IN [cache |-> MapSet(st.cache, assetId,
                            [encrypted |-> encryptedAsset.encrypted,
                             iv |-> encryptedAsset.iv,
                             authTag |-> encryptedAsset.authTag,
                             timestamp |-> ToISOString(t),
                             originalHash |-> hash,
                             src |-> asset]),
           ctr |-> st.ctr + 1,
           results |-> Append(st.results,
                              [status |-> "synced", assetId |-> assetId, hash |-> hash]),
           returns |-> [st.returns EXCEPT ![assetId].gen = Bump(@)]]

\* A loop with one try block around the whole of it: the first asset that
\* fails ends the loop.
RECURSIVE syncLoopStopping(_, _, _, _, _, _, _)
syncLoopStopping(assets, ivs, i, st, key, api, t) ==
  IF i > Len(assets) THEN st
  ELSE IF StringifyThrows(assets[i]) \/ EncryptThrows(api)
       THEN syncOne(assets[i], ivs[i], st, key, api, t)
       ELSE syncLoopStopping(assets, ivs, i + 1,
                             syncOne(assets[i], ivs[i], st, key, api, t), key, api, t)

RECURSIVE syncLoop(_, _, _, _, _, _, _)
syncLoop(assets, ivs, i, st, key, api, t) ==
  IF i > Len(assets) THEN st
  ELSE syncLoop(assets, ivs, i + 1, syncOne(assets[i], ivs[i], st, key, api, t),
                key, api, t)

CountStatus(results, status) ==
  Cardinality({i \in 1..Len(results) : results[i].status = status})

\* The state after the loop, and the object returned.
syncAssets(assets, ivs, cache, ctr, rets, key, api, t) ==
  LET st == syncLoop(assets, ivs, 1,
                     [cache |-> cache, ctr |-> ctr, results |-> <<>>, returns |-> rets],
                     key, api, t)
  IN [cache |-> st.cache, ctr |-> st.ctr, returns |-> st.returns,
      value |-> [totalAssets |-> Len(assets),
                 syncedAssets |-> CountStatus(st.results, "synced"),
                 failedAssets |-> CountStatus(st.results, "failed"),
                 results |-> st.results]]

\* POST /sync, or a direct call of the method.
syncAssetsCall(assetLists, ivSet) ==
  \E assets \in assetLists :
    \E ivs \in [1..Len(assets) -> ivSet] :
      LET r == syncAssets(assets, ivs, assetCache, uuidCtr, returns,
                          encryptionKey, cipherApi, now)
      IN /\ calls < MaxCalls
         /\ calls' = calls + 1
         /\ assetCache' = r.cache
         /\ uuidCtr' = r.ctr
         /\ returns' = r.returns
         /\ resp' = [op |-> "syncAssets", assets |-> assets, value |-> r.value]
         /\ UNCHANGED <<now, encryptionKey, cipherApi, sessions, pending, timerDue>>
         /\ UNCHANGED serverVars

(***************************************************************************)
(* executeAI(input, options)                                               *)
(***************************************************************************)
\* !input || typeof input !== 'string'.  An input is a JavaScript value:
\* its typeof and its content.
InvalidInput(input) == input[2] = "" \/ input[1] # "string"

\* command.toUpperCase().trim()
NormalizeCommand(command) ==
  CASE command = "sync_assets " -> "SYNC_ASSETS"
    [] command = "hello" -> "HELLO"
    [] OTHER -> command

getVaultStatus ==
  [status |-> "secure", activeSessions |-> Len(sessions), cachedAssets |-> Len(assetCache)]

\* The synchronous part of a valid call: processCommand runs up to its
\* first suspension (syncAssets runs to its end, a PayPal request is
\* sent), and the call suspends at its await.
execStartValid(input, options, ivs, sessionId, ctr) ==
  LET cmd == NormalizeCommand(input[2])
      r == syncAssets(options.assets, ivs, assetCache, ctr, returns,
                      encryptionKey, cipherApi, now)
      call == [sessionId |-> sessionId, timestamp |-> ToISOString(now),
               input |-> input, options |-> options]
      settled(result) == Append(pending, call @@ [wait |-> "microtask", result |-> result])
  IN /\ resp' = [op |-> "pending", sessionId |-> sessionId]
     /\ CASE cmd = "SYNC_ASSETS" ->
               /\ assetCache' = r.cache
               /\ uuidCtr' = r.ctr
               /\ returns' = r.returns
               /\ pending' = settled([kind |-> "sync", data |-> r.value])
          [] cmd = "PAYPAL_INJECT" /\ options.paypalData = "createPayment" ->
               /\ pending' = Append(pending, call @@ [wait |-> "paypal", result |-> <<>>])
               /\ uuidCtr' = ctr
               /\ UNCHANGED <<assetCache, returns>>
          [] cmd = "PAYPAL_INJECT" /\ options.paypalData # "createPayment" ->
               /\ pending' = settled([kind |-> "injected", data |-> <<>>])
               /\ uuidCtr' = ctr
               /\ UNCHANGED <<assetCache, returns>>
          [] cmd = "VAULT_STATUS" ->
               /\ pending' = settled([kind |-> "vault", data |-> getVaultStatus])
               /\ uuidCtr' = ctr
               /\ UNCHANGED <<assetCache, returns>>
          [] OTHER ->
               /\ pending' = settled([kind |-> "processed", data |-> input[2]])
               /\ uuidCtr' = ctr
               /\ UNCHANGED <<assetCache, returns>>

\* const sessionId = options.sessionId || crypto.randomUUID(), then the
\* validation of the input.
executeAI(input, options, ivs) ==
  LET given == options.sessionId # NoId
      sessionId == IF given THEN options.sessionId ELSE randomUUID(uuidCtr)
      ctr == IF given THEN uuidCtr ELSE uuidCtr + 1
  IN /\ calls < MaxCalls
     /\ calls' = calls + 1
     /\ IF InvalidInput(input)
        THEN /\ resp' = [op |-> "executeAI", status |-> "error",
                         sessionId |-> sessionId, timestamp |-> ToISOString(now),
                         input |-> input, options |-> options]
             /\ uuidCtr' = ctr
             /\ UNCHANGED <<assetCache, returns, pending>>
        ELSE execStartValid(input, options, ivs, sessionId, ctr)
     /\ UNCHANGED <<now, encryptionKey, cipherApi, sessions, timerDue>>

Req(input, sessionId, assets, paypalData) ==
  [input |-> input,
   options |-> [sessionId |-> sessionId, assets |-> assets, paypalData |-> paypalData]]

\* A caller can pass as options.sessionId a UUID only after the program
\* has returned it.
execStart(requests, ivSet) ==
  \E req \in requests :
    \E ivs \in [1..Len(req.options.assets) -> ivSet] :
      /\ req.options.sessionId[1] = "uuid" => returns[req.options.sessionId].gen > 0
      /\ executeAI(req.input, req.options, ivs)
      /\ UNCHANGED serverVars

\* A resumption that stores the session before it looks at the outcome of
\* the command.
executeAIResumeStoringFirst(i, settle) ==
  LET c == pending[i]
      result == IF c.wait = "paypal" THEN [kind |-> "payment", data |-> "created"]
                ELSE c.result
  IN /\ pending' = MapDeleteAt(pending, i)
     /\ sessions' = MapSet(sessions, c.sessionId,
                           [input |-> c.input, result |-> result,
                            timestamp |-> c.timestamp, options |-> c.options,
                            storedAt |-> now])
     /\ resp' = [op |-> "executeAI",
                 status |-> IF settle = "reject" THEN "error" ELSE "success",
                 sessionId |-> c.sessionId, timestamp |-> c.timestamp,
                 input |-> c.input, options |-> c.options, result |-> result]
     /\ UNCHANGED <<now, encryptionKey, cipherApi, assetCache, uuidCtr, timerDue,
                    calls, returns>>

\* The call resumes from its await: the session is stored and the result
\* returned, or the PayPal request has failed and the error is returned.
executeAIResume(i, settle) ==
  LET c == pending[i]
      result == IF c.wait = "paypal" THEN [kind |-> "payment", data |-> "created"]
                ELSE c.result
      given == c.options.sessionId # NoId
  IN /\ pending' = MapDeleteAt(pending, i)
     /\ IF settle = "reject"
        THEN /\ resp' = [op |-> "executeAI", status |-> "error",
                         sessionId |-> c.sessionId, timestamp |-> c.timestamp,
                         input |-> c.input, options |-> c.options]
             /\ UNCHANGED <<sessions, returns>>
        ELSE /\ sessions' = MapSet(sessions, c.sessionId,
                                   [input |-> c.input, result |-> result,
                                    timestamp |-> c.timestamp, options |-> c.options,
                                    storedAt |-> now])
             /\ resp' = [op |-> "executeAI", status |-> "success",
                         sessionId |-> c.sessionId, timestamp |-> c.timestamp,
                         input |-> c.input, options |-> c.options, result |-> result]
             /\ returns' = IF given
                           THEN [returns EXCEPT ![c.sessionId].given = Bump(@)]
                           ELSE [returns EXCEPT ![c.sessionId].gen = Bump(@)]
     /\ UNCHANGED <<now, encryptionKey, cipherApi, assetCache, uuidCtr, timerDue, calls>>

ExecResume ==
  /\ \E i \in 1..Len(pending) :
       \E settle \in {"resolve", "reject"} :
         /\ settle = "reject" => pending[i].wait = "paypal"
         /\ executeAIResume(i, settle)
         /\ UNCHANGED serverVars
  /\ UNCHANGED hostVars

(***************************************************************************)
(* getSession(sessionId)                                                   *)
(***************************************************************************)
\* A getSession that also tests the age of the record, as cleanup does.
getSessionUnlessExpired(m, sessionId) ==
  IF MapHas(m, sessionId) /\ ~Expired(MapGet(m, sessionId).timestamp, now, 0)
  THEN [found |-> TRUE, value |-> MapGet(m, sessionId)]
  ELSE [found |-> FALSE, value |-> <<>>]

\* this.sessions.get(sessionId) || null
getSession(m, sessionId) ==
  IF MapHas(m, sessionId)
  THEN [found |-> TRUE, value |-> MapGet(m, sessionId)]
  ELSE [found |-> FALSE, value |-> <<>>]

\* A getSession that renews the timestamp of the record it returns.
getSessionRenewing(sessionId) ==
  /\ resp' = [op |-> "getSession", sessionId |-> sessionId,
              value |-> getSession(sessions, sessionId)]
  /\ sessions' = IF MapHas(sessions, sessionId)
                 THEN MapSet(sessions, sessionId,
                             [MapGet(sessions, sessionId) EXCEPT
                                !.timestamp = ToISOString(now)])
                 ELSE sessions
  /\ UNCHANGED <<now, encryptionKey, cipherApi, assetCache, uuidCtr,
                 pending, timerDue, returns, calls>>

getSessionCall(sessionId) ==
  /\ resp' = [op |-> "getSession", sessionId |-> sessionId,
              value |-> getSession(sessions, sessionId)]
  /\ UNCHANGED <<now, encryptionKey, cipherApi, sessions, assetCache, uuidCtr,
                 pending, timerDue, returns, calls>>

(***************************************************************************)
(* The program: an instance of the class, its methods called in any order. *)
(***************************************************************************)
\* The LegendoSync instance after its constructor, and the clock.
InitInstance ==
  /\ now = 0
  /\ encryptionKey \in Keys
  /\ cipherApi \in {"legacy", "removed"}
  /\ sessions = <<>>
  /\ assetCache = <<>>
  /\ uuidCtr = 0
  /\ pending = <<>>
  /\ timerDue = CleanupIntervalMs
  /\ resp = [op |-> "init"]
  /\ returns = [id \in IdUniverse |-> [gen |-> 0, given |-> 0]]
  /\ calls = 0

\* The addresses requests come from.
Ips == {"ip1", "ip2"}

\* No record of the rate limiter for a key.
NoRecord == [value |-> 0, expiresAt |-> 0]

\* The process after start: the rate limiter has seen no request, no signal
\* has been received.
InitHost ==
  /\ rateLimiter = [ip \in Ips |-> NoRecord]
  /\ requestLog = <<>>
  /\ proc = [job |-> <<>>, signals |-> <<>>, closing |-> FALSE, closed |-> FALSE,
             timers |-> <<>>, exit |-> <<>>]

\* The HTTP layer before any request: the process runs one of the two
\* server modules.
InitServer(module, apiKeyRequired) ==
  /\ InitHost
  /\ running = module
  /\ requireApiKey = apiKeyRequired
  /\ inflight = <<>>
  /\ sdkCalls = {}
  /\ answered = [r \in 1..MaxCalls |-> <<>>]
  /\ syncIds = <<>>

Init ==
  /\ InitInstance
  /\ InitServer("LegendoSync", FALSE)

\* The instance the store specifications run: one key, a runtime that
\* has crypto.createCipher.  (The key's value and the cipher play no part
\* in what is stored where, returned or swept.)
InitStore ==
  /\ Init
  /\ encryptionKey = "k1"
  /\ cipherApi = "legacy"

A1 == <<"a">>

StoreRequests ==
  {Req(<<"string", "">>, NoId, <<>>, "none"),
   Req(<<"string", "hello">>, NoId, <<>>, "none"),
   Req(<<"string", "hello">>, CustomId, <<>>, "none"),
   Req(<<"string", "hello">>, Uuid(1), <<>>, "none"),
   Req(<<"string", "sync_assets ">>, NoId, <<A1, Circular>>, "none"),
   Req(<<"string", "PAYPAL_INJECT">>, NoId, <<>>, "createPayment")}

StoreAssetLists == {<<A1, A1, A1>>}

ExecStart ==
  /\ execStart(StoreRequests, {"iv1"})
  /\ UNCHANGED hostVars

SyncAssetsCall ==
  /\ syncAssetsCall(StoreAssetLists, {"iv1"})
  /\ UNCHANGED hostVars

\* The caller of executeAI reads back the session it was just given.
ReadBack ==
  /\ resp.op = "executeAI"
  /\ getSessionCall(resp.sessionId)
  /\ UNCHANGED serverVars
  /\ UNCHANGED hostVars

Next ==
  \/ ExecStart
  \/ ExecResume
  \/ SyncAssetsCall
  \/ ReadBack
  \/ Cleanup
  \/ Tick

Spec == InitStore /\ [][Next]_vars

(***************************************************************************)
(* The timer specification: the server module, whose setInterval callback  *)
(* is the only caller of cleanup.                                          *)
(***************************************************************************)
TimerRequests == {Req(<<"string", "hello">>, NoId, <<>>, "none")}

TimerStart ==
  /\ execStart(TimerRequests, {"iv1"})
  /\ UNCHANGED hostVars

TimerSync ==
  /\ syncAssetsCall({<<A1>>}, {"iv1"})
  /\ UNCHANGED hostVars

NextTimer ==
  \/ TimerStart
  \/ ExecResume
  \/ TimerSync
  \/ TimerFire
  \/ TickTimer

SpecTimer == InitStore /\ [][NextTimer]_vars

(***************************************************************************)
(* The vault specification: encrypt and decrypt, called directly and on    *)
(* the records of assetCache.                                              *)
(***************************************************************************)
\* encrypt(text), called directly.
EncryptCall ==
  /\ \E text \in JsStrings :
       \E iv \in Ivs :
         /\ resp' = IF EncryptThrows(cipherApi)
                    THEN [op |-> "encrypt", text |-> text, threw |-> TRUE, data |-> <<>>]
                    ELSE [op |-> "encrypt", text |-> text, threw |-> FALSE,
                          data |-> encrypt(encryptionKey, iv, text)]
         /\ UNCHANGED <<now, encryptionKey, cipherApi, sessions, assetCache, uuidCtr,
                        pending, timerDue, returns, calls>>
         /\ UNCHANGED serverVars
  /\ UNCHANGED hostVars

Triple(rec) == [encrypted |-> rec.encrypted, iv |-> rec.iv, authTag |-> rec.authTag]

\* The records decrypt can be handed, each with the text it was made from:
\* those of assetCache, and the one encrypt has just returned.
Encrypted ==
  {[from |-> "assetCache", data |-> Triple(assetCache[i].value),
    plain |-> JsonStringify(assetCache[i].value.src)] : i \in 1..Len(assetCache)}
  \cup (IF resp.op = "encrypt" /\ ~resp.threw
        THEN {[from |-> "encrypt", data |-> resp.data, plain |-> resp.text]}
        ELSE {})

\* The values an altered field is given: the fields of other records.
TamperTexts == {<<"a">>, JsonStringify(A1)}
TamperValues(field) ==
  CASE field = "encrypted" -> {encrypt(k, "iv1", t).encrypted : k \in Keys, t \in TamperTexts}
    [] field = "authTag" -> {encrypt(k, "iv1", t).authTag : k \in Keys, t \in TamperTexts}
    [] field = "iv" -> {ToHex(iv) : iv \in Ivs}

\* decrypt(encryptedData) on an instance whose key is `key`, of a record
\* as it was made (field "none") or with one field altered.
DecryptCall ==
  /\ \E e \in Encrypted :
       \E field \in {"none", "encrypted", "iv", "authTag"} :
         \E key \in Keys :
           \E v \in IF field = "none" THEN {<<>>} ELSE TamperValues(field) \ {e.data[field]} :
             LET arg == IF field = "none" THEN e.data ELSE [e.data EXCEPT ![field] = v]
             IN /\ field # "none" => key = encryptionKey /\ e.from = "assetCache"
                /\ resp' = [op |-> "decrypt", from |-> e.from, plain |-> e.plain,
                            changed |-> field, arg |-> arg, key |-> key,
                            out |-> IF EncryptThrows(cipherApi) THEN Thrown
                                    ELSE decrypt(key, arg)]
                /\ UNCHANGED <<now, encryptionKey, cipherApi, sessions, assetCache,
                               uuidCtr, pending, timerDue, returns, calls>>
                /\ UNCHANGED serverVars
  /\ UNCHANGED hostVars

VaultAssetLists == {<<A1>>, <<<<"H">>, Circular>>}

VaultSync ==
  /\ syncAssetsCall(VaultAssetLists, Ivs)
  /\ UNCHANGED hostVars

NextVault ==
  \/ VaultSync
  \/ EncryptCall
  \/ DecryptCall

SpecVault == Init /\ [][NextVault]_vars

(***************************************************************************)
(* Properties of the vault.                                                *)
(***************************************************************************)
\* encrypt returns exactly when the runtime has crypto.createCipher.
EncryptReturns ==
  resp.op = "encrypt" => (resp.threw <=> EncryptThrows(cipherApi))

\* Every record of assetCache decrypts, under the instance's key, to
\* JSON.stringify of the asset it was made from, and the response of
\* syncAssets names the record of each synced asset.
StoredAssetsDecrypt ==
  /\ \A i \in 1..Len(assetCache) :
       decrypt(encryptionKey, Triple(assetCache[i].value))
         = Returned(JsonStringify(assetCache[i].value.src))
  /\ resp.op = "syncAssets" =>
       \A i \in 1..Len(resp.value.results) :
         LET r == resp.value.results[i]
         IN r.status = "synced" =>
              /\ MapHas(assetCache, r.assetId)
              /\ MapGet(assetCache, r.assetId).src = resp.assets[i]
              /\ r.hash = Sha256(JsonStringify(resp.assets[i]))

\* decrypt was handed, under the instance's key, a record as encrypt made it.
DecryptedUnaltered ==
  resp.op = "decrypt" /\ resp.changed = "none" /\ resp.key = encryptionKey

C2_TamperDetected ==
  (/\ resp.op = "decrypt"
   /\ resp.from = "assetCache"
   /\ resp.changed # "none" \/ resp.key # encryptionKey)
    => ~resp.out.ok

(***************************************************************************)
(* Properties of the store: identifiers and sessions.                      *)
(***************************************************************************)
\* C3 as stated: the ids returned by all successful store operations (the
\* sessionId of executeAI, the assetId of each synced asset) are pairwise
\* distinct: no id is returned twice.
C3_AllReturnedIdsDistinct ==
  \A id \in IdUniverse : returns[id].gen + returns[id].given <= 1

\* C3 amended: the ids the program generates itself, which are the sessionId
\* of every successful executeAI call that passes no options.sessionId and
\* the assetId of every synced asset, are pairwise distinct; and a call that
\* passes options.sessionId is returned exactly that id, so that two such
\* calls can return the same id.
C3_GeneratedIdsDistinct ==
  /\ \A id \in IdUniverse : returns[id].gen <= 1
  /\ returns[CustomId].gen = 0
  /\ (resp.op = "executeAI" /\ resp.options.sessionId # NoId)
       => resp.sessionId = resp.options.sessionId

\* Three generated ids have been returned: two asset ids and a session id.
C3_Witness ==
  /\ Cardinality({id \in IdUniverse : returns[id].gen = 1}) >= 3
  /\ Len(assetCache) >= 2
  /\ \E i \in 1..Len(sessions) : sessions[i].value.options.sessionId = NoId

\* The fields of a session record that the program stores and returns.
SessionView(v) ==
  [input |-> v.input, result |-> v.result, timestamp |-> v.timestamp,
   options |-> v.options]

\* getSession(sessionId), evaluated in the state after the step, returns
\* the record the response r describes.
ReadsRecordOf(sessionId, r) ==
  LET got == getSession(sessions', sessionId)
  IN got.found /\ SessionView(got.value) = SessionView(r)

\* The last operation was an executeAI call that completed with success.
JustCompleted == resp.op = "executeAI" /\ resp.status = "success"

\* The step completes the suspended call pending[i] with success.
CompletesOk(i) ==
  /\ Len(pending') = Len(pending) - 1
  /\ pending' = MapDeleteAt(pending, i)
  /\ resp'.op = "executeAI"
  /\ resp'.status = "success"
  /\ resp'.sessionId = pending[i].sessionId
  /\ SessionView(resp') = SessionView(pending[i] @@ [result |-> resp'.result])

\* The step completes pending[i], a call that was suspended together with
\* the call that has just completed and carries the same payload.
CompletesTwin(i) ==
  /\ JustCompleted
  /\ CompletesOk(i)
  /\ pending[i].input = resp.input
  /\ pending[i].options = resp.options

\* Both calls have their own id, and each id reads back its own call's record.
TwinsKept ==
  /\ resp'.sessionId # resp.sessionId
  /\ ReadsRecordOf(resp.sessionId, resp)
  /\ ReadsRecordOf(resp'.sessionId, resp')

\* C4 as stated: two executeAI calls with identical payload, both started
\* before either resumes, return two distinct sessionIds, and after both have
\* completed getSession returns for each id the record its own call wrote.
C4_TwinsAlwaysKept ==
  [][\A i \in 1..Len(pending) : CompletesTwin(i) => TwinsKept]_vars

\* C4 amended: the same, for two calls whose identical payload carries no
\* options.sessionId.  (Two calls with the same options.sessionId return that
\* one id, and the second to complete replaces the record of the first.)
C4_TwinsWithoutIdKept ==
  [][\A i \in 1..Len(pending) :
       (CompletesTwin(i) /\ pending[i].options.sessionId = NoId) => TwinsKept]_vars

\* Two calls with the same payload and no options.sessionId, started at the
\* same clock reading and both completed later, are both in sessions.
C4_Witness ==
  /\ JustCompleted
  /\ \E i, j \in 1..Len(sessions) :
       /\ sessions[i].key # sessions[j].key
       /\ SessionView(sessions[i].value) = SessionView(sessions[j].value)
       /\ sessions[i].value.options.sessionId = NoId
       /\ sessions[i].value.storedAt > DateGetTime(sessions[i].value.timestamp)
       /\ sessions[j].value.storedAt > DateGetTime(sessions[j].value.timestamp)

\* C5: a getSession(X) that follows a successful executeAI which returned X,
\* with no other store operation and no cleanup in between, returns the
\* record that call wrote: its input, result, timestamp and options, never
\* null and never an older record.
C5_ReadYourWrite ==
  [][(JustCompleted /\ resp'.op = "getSession" /\ resp'.sessionId = resp.sessionId)
       => /\ resp'.value.found
          /\ SessionView(resp'.value.value) = SessionView(resp)]_vars

\* The id was used by two calls, and the read that followed the second one
\* returned a record.
C5_Witness ==
  /\ resp.op = "getSession"
  /\ resp.sessionId = CustomId
  /\ resp.value.found
  /\ returns[CustomId].given = 2

(***************************************************************************)
(* Properties of cleanup.                                                  *)
(***************************************************************************)
\* The step is a cleanup pass; its maxAge is resp'.maxAge.
CleanupStep == resp'.op = "cleanup" /\ resp'.at = now /\ now' = now

\* now - new Date(entry.timestamp).getTime(), in the state before the step
Age(value) == now - DateGetTime(value.timestamp)

\* The entry m[i] is in the map m2 with the same record.
Kept(m, i, m2) == MapHas(m2, m[i].key) /\ MapGet(m2, m[i].key) = m[i].value

\* C6 as stated: an entry inserted at time T is still present at every time
\* t < T + maxAge: a cleanup(maxAge) pass deletes no session and no asset
\* that was inserted less than maxAge ago.
C6_KeptUntilMaxAgeAfterInsert ==
  [][CleanupStep =>
       /\ \A i \in 1..Len(sessions) :
            now < sessions[i].value.storedAt + resp'.maxAge
              => Kept(sessions, i, sessions') /\ getSession(sessions', sessions[i].key).found
       /\ \A i \in 1..Len(assetCache) :
            now < DateGetTime(assetCache[i].value.timestamp) + resp'.maxAge
              => Kept(assetCache, i, assetCache')]_vars

\* C6 amended: an entry whose recorded timestamp is T is still present (a
\* session is still returned by getSession) at every time t <= T + maxAge:
\* a cleanup(maxAge) pass deletes no entry whose timestamp is at most maxAge
\* old.  An asset's timestamp is its insertion time; a session's timestamp
\* is the time its executeAI call started, which is before its insertion.
C6_KeptUntilMaxAgeAfterTimestamp ==
  [][CleanupStep =>
       /\ \A i \in 1..Len(sessions) :
            Age(sessions[i].value) <= resp'.maxAge
              => Kept(sessions, i, sessions') /\ getSession(sessions', sessions[i].key).found
       /\ \A i \in 1..Len(assetCache) :
            Age(assetCache[i].value) <= resp'.maxAge
              => Kept(assetCache, i, assetCache')]_vars

\* A cleanup pass has just run over a session of age exactly maxAge > 0,
\* and the session is there.
C6_Witness ==
  /\ resp.op = "cleanup"
  /\ resp.at = now
  /\ resp.maxAge > 0
  /\ \E i \in 1..Len(sessions) : Age(sessions[i].value) = resp.maxAge

\* C7: when a cleanup(maxAge) pass at time t returns, every session and
\* every asset with t - timestamp > maxAge is gone from its map (getSession
\* returns null for such a session); no expired entry is skipped, however
\* many entries adjacent in iteration order the pass removes.
C7_ExpiredRemoved ==
  [][CleanupStep =>
       /\ \A i \in 1..Len(sessions) :
            Age(sessions[i].value) > resp'.maxAge
              => /\ ~MapHas(sessions', sessions[i].key)
                 /\ ~getSession(sessions', sessions[i].key).found
       /\ \A i \in 1..Len(assetCache) :
            Age(assetCache[i].value) > resp'.maxAge
              => ~MapHas(assetCache', assetCache[i].key)]_vars

\* One syncAssets call stored three assets, adjacent in the map and of one
\* age, and a cleanup pass has removed all three.
C7_Witness ==
  /\ resp.op = "cleanup"
  /\ calls = 1
  /\ uuidCtr = 3
  /\ assetCache = <<>>

\* The step is a cleanup(maxAge) pass that directly follows another with the
\* same maxAge.
SecondCleanupStep ==
  CleanupStep /\ resp.op = "cleanup" /\ resp.maxAge = resp'.maxAge

\* C9 as stated: the second of two cleanup(maxAge) calls in a row, with no
\* store operation in between, removes nothing.
C9_SecondPassRemovesNothing ==
  [][SecondCleanupStep => sessions' = sessions /\ assetCache' = assetCache]_vars

\* The entry m[i] is kept, or its age has come to exceed maxAge since the
\* first pass.
KeptOrNewlyExpired(m, i, m2) ==
  \/ Kept(m, i, m2)
  \/ /\ resp.at - DateGetTime(m[i].value.timestamp) <= resp'.maxAge
     /\ Age(m[i].value) > resp'.maxAge

\* C9 amended: the second of two cleanup(maxAge) calls in a row, with no
\* store operation in between, removes nothing if the clock reads the same
\* as in the first call; if the clock has advanced it removes exactly the
\* entries whose age has come to exceed maxAge since the first call.
C9_SecondPassAtSameTimeRemovesNothing ==
  [][SecondCleanupStep =>
       /\ resp.at = now => sessions' = sessions /\ assetCache' = assetCache
       /\ \A i \in 1..Len(sessions) : KeptOrNewlyExpired(sessions, i, sessions')
       /\ \A i \in 1..Len(assetCache) : KeptOrNewlyExpired(assetCache, i, assetCache')]_vars

\* A second pass has run at the clock reading of the first and with its
\* maxAge, over a cache that holds three assets after three others were
\* removed.
C9_Witness ==
  /\ resp.op = "cleanup"
  /\ resp.after = [maxAge |-> resp.maxAge, at |-> resp.at]
  /\ uuidCtr = 6
  /\ Len(assetCache) = 3

(***************************************************************************)
(* Properties of the writes.                                               *)
(***************************************************************************)
\* C10 as stated: no operation replaces the record stored under an id that
\* is present in sessions or in assetCache.
C10_NoRecordReplaced ==
  [][/\ \A i \in 1..Len(sessions) :
          MapHas(sessions', sessions[i].key) => Kept(sessions, i, sessions')
     /\ \A i \in 1..Len(assetCache) :
          MapHas(assetCache', assetCache[i].key) => Kept(assetCache, i, assetCache')]_vars

\* The step completes with success an executeAI call that was given the id
\* as options.sessionId, and the id now holds that call's record.
ReplacedByCallGiven(sessionId) ==
  \E j \in 1..Len(pending) :
    /\ CompletesOk(j)
    /\ pending[j].options.sessionId = sessionId
    /\ ReadsRecordOf(sessionId, resp')

\* C10 amended: no operation replaces the record of an assetId that is
\* present in assetCache.  A session's record is replaced by nothing but the
\* successful completion of an executeAI call that was passed the session's
\* id as options.sessionId: that call stores its own record under the id
\* and returns success, without an error.
C10_OnlyGivenIdReplaced ==
  [][/\ \A i \in 1..Len(sessions) :
          MapHas(sessions', sessions[i].key)
            => Kept(sessions, i, sessions') \/ ReplacedByCallGiven(sessions[i].key)
     /\ \A i \in 1..Len(assetCache) :
          MapHas(assetCache', assetCache[i].key) => Kept(assetCache, i, assetCache')]_vars

\* A second call that was given the same options.sessionId has completed at
\* a later time than the call it was started with, and the id holds its record.
C10_Witness ==
  /\ JustCompleted
  /\ returns[CustomId].given = 2
  /\ MapHas(sessions, CustomId)
  /\ MapGet(sessions, CustomId).storedAt = now
  /\ now > 0

(***************************************************************************)
(* Properties of the cleanup timer.                                        *)
(***************************************************************************)
\* The times at which the entries in the store were stored: a session when
\* its executeAI call resumed, an asset at its timestamp.
StoreTimes ==
  {sessions[i].value.storedAt : i \in 1..Len(sessions)}
    \cup {DateGetTime(assetCache[i].value.timestamp) : i \in 1..Len(assetCache)}

\* C8 as stated: with the timer calling cleanup with max age M every I ms,
\* an entry is absent from the store at all times >= its store time + M + I.
C8_AbsentFromMaxAgePlusInterval ==
  \A T \in StoreTimes : now < T + DefaultMaxAgeMs + CleanupIntervalMs

\* How late a due timer callback runs at most.
MaxLateMs == MaxLate * TickMs

\* C8 amended: with the timer's callbacks running at most d ms after they
\* are due, an entry is absent from the store at all times later than its
\* store time + M + I + d.  At store time + M + I itself it can still be
\* present, even with d = 0, until the callback due at that instant has run.
C8_AbsentAfterMaxAgePlusIntervalPlusDelay ==
  \A T \in StoreTimes : now <= T + DefaultMaxAgeMs + CleanupIntervalMs + MaxLateMs

\* The timer has fired, and an entry is in the store at its store time
\* + M + I + d: it was of age exactly M at one pass, and the next is late.
C8_Witness ==
  /\ timerDue > CleanupIntervalMs
  /\ now >= timerDue
  /\ \E T \in StoreTimes : now = T + DefaultMaxAgeMs + CleanupIntervalMs + MaxLateMs

(***************************************************************************)
(* The HTTP layer of the two servers.  A response of a server names the    *)
(* server the request was sent to, the route, the number of the request    *)
(* when its handler had to wait for a callback (0 otherwise), the request, *)
(* the status code and the body.                                           *)
(***************************************************************************)
Response(server, route, id, req, code, body) ==
  [op |-> "http", server |-> server, route |-> route, id |-> id, req |-> req,
   code |-> code, body |-> body]

\* res.status(code).json(body) as the only effect of a handler.
respond(r) ==
  /\ resp' = r
  /\ UNCHANGED <<now, encryptionKey, cipherApi, sessions, assetCache, uuidCtr,
                 pending, timerDue, returns, calls>>
  /\ UNCHANGED serverVars

\* A test for undefined only: an empty string and 0 pass it.
IsUndefined(v) == v[1] = "undefined"

\* !v of a JavaScript value <<typeof, content>>; the content of a number
\* is its decimal numeral.
Falsy(v) ==
  \/ v[1] = "undefined"
  \/ v[1] = "string" /\ v[2] = ""
  \/ v[1] = "number" /\ v[2] = "0"

Undefined == <<"undefined", "">>

(***************************************************************************)
(* The LegendoSync server: the routes in front of the instance.            *)
(***************************************************************************)
\* await rateLimiter.consume(req.ip) in the rate limiting middleware, which
\* runs before every route: the promise resolves, or it rejects and the
\* middleware answers 429.  (The points an address has left are the state
\* of the rate-limiter-flexible library.)
ConsumeOutcomes == {"resolved", "rejected"}

TooManyRequests(route, req) ==
  Response("LegendoSync", route, 0, req, 429, [error |-> "Too Many Requests"])

\* GET /session/:sessionId
getSessionRoute(sessionId, consume) ==
  LET route == "GET /session/:sessionId"
      session == getSession(sessions, sessionId)
  IN respond(IF consume = "rejected" THEN TooManyRequests(route, sessionId)
             ELSE IF ~session.found
                  THEN Response("LegendoSync", route, 0, sessionId, 404,
                                [error |-> "Not Found"])
                  ELSE Response("LegendoSync", route, 0, sessionId, 200,
                                SessionView(session.value)))

\* POST /trigger of the LegendoSync server: the handler returns 400 for a
\* falsy input and awaits executeAI otherwise; the result of executeAI is
\* the body of the 200 response.
postTrigger(req, ivs, consume) ==
  LET route == "POST /trigger"
  IN IF consume = "rejected" THEN respond(TooManyRequests(route, req))
     ELSE IF Falsy(req.input)
          THEN respond(Response("LegendoSync", route, 0, req, 400,
                                [error |-> "Bad Request"]))
          ELSE /\ executeAI(req.input, req.options, ivs)
               /\ UNCHANGED serverVars

(***************************************************************************)
(* Handlers that wait: the PayPal SDK calls its callback later, the timer  *)
(* of initSync fires later.                                                *)
(***************************************************************************)
NoDue == -1

\* The handler of request `req` suspends at its await, after the calls to
\* the PayPal SDK in sdk.
suspend(server, route, req, wait, due, data, sdk) ==
  /\ calls < MaxCalls
  /\ calls' = calls + 1
  /\ inflight' = Append(inflight, [id |-> calls + 1, server |-> server,
                                   route |-> route, wait |-> wait, due |-> due,
                                   data |-> data])
  /\ sdkCalls' = sdkCalls \cup sdk
  /\ resp' = [op |-> "await", server |-> server, route |-> route,
              id |-> calls + 1, req |-> req]
  /\ UNCHANGED <<now, encryptionKey, cipherApi, sessions, assetCache, uuidCtr,
                 pending, timerDue, returns, running, requireApiKey, answered,
                 syncIds>>

\* The handler of inflight[i] resumes and sends its response.
answer(i, code, body, ids) ==
  LET c == inflight[i]
  IN /\ inflight' = MapDeleteAt(inflight, i)
     /\ answered' = [answered EXCEPT ![c.id] = Append(@, code)]
     /\ syncIds' = syncIds \o ids
     /\ resp' = Response(c.server, c.route, c.id, c.data, code, body)
     /\ UNCHANGED <<now, encryptionKey, cipherApi, sessions, assetCache, uuidCtr,
                    pending, timerDue, returns, calls, running, requireApiKey,
                    sdkCalls>>

\* paymentData.total || '0.00'
OrDefault(v, default) == IF Falsy(v) THEN default ELSE v

\* POST /paypal/create: injectPayPal({createPayment: req.body}) calls
\* createPayPalPayment, which calls paypal.payment.create.
paypalCreate(body, consume) ==
  LET route == "POST /paypal/create"
  IN IF consume = "rejected" THEN respond(TooManyRequests(route, body))
     ELSE suspend("LegendoSync", route, body, "paypal", NoDue, body,
                  {[method |-> "payment.create", server |-> "LegendoSync",
                    route |-> route,
                    args |-> [total |-> OrDefault(body.total, <<"string", "0.00">>)]]})

\* POST /paypal/execute: 400 unless both ids are there, then
\* injectPayPal({executePayment: ...}) calls paypal.payment.execute.
paypalExecute(body, consume) ==
  LET route == "POST /paypal/execute"
  IN IF consume = "rejected" THEN respond(TooManyRequests(route, body))
     ELSE IF Falsy(body.paymentId) \/ Falsy(body.payerId)
          THEN respond(Response("LegendoSync", route, 0, body, 400,
                                [error |-> "Bad Request"]))
          ELSE suspend("LegendoSync", route, body, "paypal", NoDue, body,
                       {[method |-> "payment.execute", server |-> "LegendoSync",
                         route |-> route,
                         args |-> [paymentId |-> body.paymentId,
                                   payerId |-> body.payerId]]})

\* What PayPal reports to the callback of a request.
PayPalOutcomes == {"error", "success"}

\* The payment PayPal reports for request number n.
PaymentId(n) == <<"string", "PAY-", n>>

\* The callback of createPayPalPayment or executePayPalPayment rejects or
\* resolves the promise; the route answers 500 in its catch and 200 with
\* the resolved value otherwise.
legendoPayPalAnswerAlwaysOk(i, outcome) ==
  LET c == inflight[i]
  IN answer(i, 200,
            IF c.route = "POST /paypal/create"
            THEN [paymentId |-> PaymentId(c.id), status |-> "created"]
            ELSE [paymentId |-> c.data.paymentId, status |-> "executed"],
            <<>>)

legendoPayPalAnswer(i, outcome) ==
  LET c == inflight[i]
  IN IF outcome = "error"
     THEN answer(i, 500, [error |-> IF c.route = "POST /paypal/create"
                                    THEN "Payment Creation Failed"
                                    ELSE "Payment Execution Failed"], <<>>)
     ELSE answer(i, 200,
                 IF c.route = "POST /paypal/create"
                 THEN [paymentId |-> PaymentId(c.id), status |-> "created"]
                 ELSE [paymentId |-> c.data.paymentId, status |-> "executed"],
                 <<>>)

(***************************************************************************)
(* The index.js server.                                                    *)
(***************************************************************************)
\* The delay of the timer of AssetSyncService.initSync.
SyncDelayMs == 1000

\* validateRequest answers 401 and does not call next().
validateRequest(apiKey) == requireApiKey /\ Falsy(apiKey)

Unauthorized(route, req) ==
  Response("index.js", route, 0, req, 401, [error |-> "Unauthorized"])

BadRequest(route, req) ==
  Response("index.js", route, 0, req, 400, [error |-> "Bad Request"])

\* res.status(err.status || 500) of errorHandler; a status of 0 is an
\* error without the property.
errorHandler(route, id, req, err) ==
  Response("index.js", route, id, req, IF err.status = 0 THEN 500 ELSE err.status,
           [error |-> err.message])

\* The error the PayPal SDK hands to a callback, and the TypeError of a
\* call of a method the value does not have: neither has a status.
PayPalError == [message |-> "Response Status", status |-> 0]
TypeError == [message |-> "is not a function", status |-> 0]

\* POST /trigger of index.js: 400 for a falsy input, else await
\* AssetSyncService.initSync(input), which resolves from a timer.
indexTrigger(req) ==
  LET route == "POST /trigger"
  IN IF validateRequest(req.apiKey) THEN respond(Unauthorized(route, req))
     ELSE IF Falsy(req.input) THEN respond(BadRequest(route, req))
     ELSE suspend("index.js", route, req, "timer", now + SyncDelayMs,
                  [input |-> req.input], {})

\* The syncId of a sync that completes at time t: `SYNC-${Date.now()}`.
SyncId(t) == <<"string", "SYNC-", t>>

\* An initSync that resolves without waiting for its timer.
syncDoneAtOnce(i) ==
  /\ inflight[i].wait = "timer"
  /\ answer(i, 200, [status |-> "success", input |-> inflight[i].data.input,
                     syncId |-> SyncId(now), timestamp |-> ToISOString(now)],
            <<SyncId(now)>>)

\* The timer of initSync fires, the promise resolves with the result and
\* the route sends it.
syncDone(i) ==
  /\ inflight[i].wait = "timer"
  /\ now >= inflight[i].due
  /\ answer(i, 200, [status |-> "success", input |-> inflight[i].data.input,
                     syncId |-> SyncId(now), timestamp |-> ToISOString(now)],
            <<SyncId(now)>>)

\* AssetSyncService.getSyncStatus(syncId)
getSyncStatus(syncId) ==
  [syncId |-> syncId, status |-> "completed", timestamp |-> ToISOString(now)]

\* GET /sync/:syncId
indexSyncStatus(req) ==
  LET route == "GET /sync/:syncId"
  IN IF validateRequest(req.apiKey) THEN respond(Unauthorized(route, req))
     ELSE respond(Response("index.js", route, 0, req, 200, getSyncStatus(req.syncId)))

\* Number(v) of a JavaScript value, as the comparison amount <= 0 takes
\* it: a number is itself, a string is parsed, undefined is NaN.
ToNumber(v) ==
  CASE v[1] = "undefined" -> [nan |-> TRUE, val |-> 0]
    [] v[2] = "10" -> [nan |-> FALSE, val |-> 10]
    [] v[2] = "5" -> [nan |-> FALSE, val |-> 5]
    [] v[2] = "0" -> [nan |-> FALSE, val |-> 0]
    [] v[2] = "-1" -> [nan |-> FALSE, val |-> -1]
    [] v[2] = "" -> [nan |-> FALSE, val |-> 0]
    [] OTHER -> [nan |-> TRUE, val |-> 0]

\* v <= 0
AtMostZero(v) == ~ToNumber(v).nan /\ ToNumber(v).val <= 0

\* A validation that tests !amount only.
InvalidAmountFalsyOnly(amount) == Falsy(amount)

\* !amount || amount <= 0
InvalidAmount(amount) == Falsy(amount) \/ AtMostZero(amount)

\* Only a number has toFixed.
HasToFixed(v) == v[1] = "number"

\* POST /payment/create: 400 for an invalid amount, else await
\* PayPalService.createPayment, whose promise is rejected by the TypeError
\* of amount.toFixed before the SDK is called, or calls paypal.payment.create.
indexPaymentCreate(req) ==
  LET route == "POST /payment/create"
  IN IF validateRequest(req.apiKey) THEN respond(Unauthorized(route, req))
     ELSE IF InvalidAmount(req.amount) THEN respond(BadRequest(route, req))
     ELSE IF ~HasToFixed(req.amount)
          THEN respond(errorHandler(route, 0, req, TypeError))
          ELSE suspend("index.js", route, req, "paypal", NoDue,
                       [amount |-> req.amount],
                       {[method |-> "payment.create", server |-> "index.js",
                         route |-> route, args |-> [total |-> req.amount]]})

\* POST /payment/execute
indexPaymentExecute(req) ==
  LET route == "POST /payment/execute"
  IN IF validateRequest(req.apiKey) THEN respond(Unauthorized(route, req))
     ELSE IF Falsy(req.paymentId) \/ Falsy(req.payerId)
          THEN respond(BadRequest(route, req))
          ELSE suspend("index.js", route, req, "paypal", NoDue,
                       [paymentId |-> req.paymentId, payerId |-> req.payerId],
                       {[method |-> "payment.execute", server |-> "index.js",
                         route |-> route,
                         args |-> [paymentId |-> req.paymentId,
                                   payerId |-> req.payerId]]})

\* GET /payment/:paymentId
indexPaymentDetails(req) ==
  LET route == "GET /payment/:paymentId"
  IN IF validateRequest(req.apiKey) THEN respond(Unauthorized(route, req))
     ELSE suspend("index.js", route, req, "paypal", NoDue,
                  [paymentId |-> req.paymentId],
                  {[method |-> "payment.get", server |-> "index.js",
                    route |-> route, args |-> [paymentId |-> req.paymentId]]})

\* The callback of a PayPalService method rejects the promise, and the
\* route hands the error to errorHandler, or resolves it with the payment,
\* and the route answers 200.
indexPayPalAnswer(i, outcome) ==
  LET c == inflight[i]
      r == errorHandler(c.route, c.id, c.data, PayPalError)
  IN IF outcome = "error"
     THEN answer(i, r.code, r.body, <<>>)
     ELSE answer(i, 200,
                 CASE c.route = "POST /payment/create" ->
                        [paymentId |-> PaymentId(c.id), status |-> "created"]
                   [] c.route = "POST /payment/execute" ->
                        [paymentId |-> c.data.paymentId, status |-> "success"]
                   [] OTHER ->
                        [paymentId |-> c.data.paymentId, status |-> "details"],
                 <<>>)

\* PayPal answers the call made for inflight[i].
paypalCallback(i, outcome) ==
  /\ inflight[i].wait = "paypal"
  /\ IF inflight[i].server = "index.js"
     THEN indexPayPalAnswer(i, outcome)
     ELSE legendoPayPalAnswer(i, outcome)

(***************************************************************************)
(* The requests sent to the servers, and the clock of the servers.         *)
(***************************************************************************)
ServerTickMs == SyncDelayMs \div 2

\* Time passes; it does not stop while a timer is waiting.
TickServer ==
  /\ \/ now < MaxServerTicks * ServerTickMs
     \/ \E i \in 1..Len(inflight) : inflight[i].wait = "timer" /\ inflight[i].due > now
  /\ now' = now + ServerTickMs
  /\ UNCHANGED <<encryptionKey, cipherApi, sessions, assetCache, uuidCtr,
                 pending, timerDue, resp, returns, calls>>
  /\ UNCHANGED serverVars
  /\ UNCHANGED hostVars

Str(s) == <<"string", s>>
Num(numeral) == <<"number", numeral>>

\* The bodies of POST /trigger sent to the LegendoSync server.
ServerTriggers ==
  {Req(Undefined, NoId, <<>>, "none"),
   Req(Str(""), CustomId, <<A1>>, "none"),
   Req(Str("hello"), NoId, <<>>, "none"),
   Req(Str("hello"), CustomId, <<>>, "none"),
   Req(Str("sync_assets "), NoId, <<A1>>, "none")}

PostTrigger ==
  /\ running = "LegendoSync"
  /\ \E req \in ServerTriggers :
       \E ivs \in [1..Len(req.options.assets) -> {"iv1"}] :
         \E consume \in ConsumeOutcomes :
           postTrigger(req, ivs, consume)
  /\ UNCHANGED hostVars

\* The ids asked for: the first two UUIDs the instance generates, and the
\* id a client chose.
AskedIds == {Uuid(1), Uuid(2), CustomId}

GetSessionRoute ==
  /\ running = "LegendoSync"
  /\ \E sessionId \in AskedIds :
       \E consume \in ConsumeOutcomes :
         getSessionRoute(sessionId, consume)
  /\ UNCHANGED hostVars

\* getSession(sessionId), called directly.
GetSession ==
  /\ \E sessionId \in AskedIds :
       /\ getSessionCall(sessionId)
       /\ UNCHANGED serverVars
  /\ UNCHANGED hostVars

Totals == {Undefined, Str("10.00")}

PaypalCreate ==
  /\ running = "LegendoSync"
  /\ \E total \in Totals :
       \E consume \in ConsumeOutcomes :
         paypalCreate([total |-> total], consume)
  /\ UNCHANGED hostVars

\* The bodies of an execute request: both ids, or one of them missing or
\* empty.
ExecuteBodies ==
  {[paymentId |-> PaymentId(1), payerId |-> Str("PAYER")],
   [paymentId |-> Undefined, payerId |-> Str("PAYER")],
   [paymentId |-> PaymentId(1), payerId |-> Str("")],
   [paymentId |-> Undefined, payerId |-> Undefined]}

PaypalExecute ==
  /\ running = "LegendoSync"
  /\ \E body \in ExecuteBodies :
       \E consume \in ConsumeOutcomes :
         paypalExecute(body, consume)
  /\ UNCHANGED hostVars

PayPalCallback ==
  /\ \E i \in 1..Len(inflight) :
       \E outcome \in PayPalOutcomes :
         paypalCallback(i, outcome)
  /\ UNCHANGED hostVars

\* The X-API-Key header of a request: absent, a key nobody was given, a
\* key given to a client.
NoKey == Undefined
WrongKey == Str("not-a-key")
ApiKeys == {NoKey, WrongKey, Str("client-key")}

IndexInputs == {Undefined, Str(""), Str("hello")}

IndexTrigger ==
  /\ running = "index.js"
  /\ \E apiKey \in ApiKeys, input \in IndexInputs :
       indexTrigger([apiKey |-> apiKey, input |-> input])
  /\ UNCHANGED hostVars

SyncDoneFor(r) ==
  /\ \E i \in 1..Len(inflight) :
       /\ inflight[i].id = r
       /\ syncDone(i)
  /\ UNCHANGED hostVars

SyncDone == \E r \in 1..MaxCalls : SyncDoneFor(r)

\* The ids asked for: one that the server can issue, one it never issues.
AskedSyncIds == {SyncId(SyncDelayMs), <<"string", "SYNC-unknown", 0>>}

IndexSyncStatus ==
  /\ running = "index.js"
  /\ \E apiKey \in ApiKeys, syncId \in AskedSyncIds :
       indexSyncStatus([apiKey |-> apiKey, syncId |-> syncId])
  /\ UNCHANGED hostVars

Amounts ==
  {Undefined, Num("0"), Num("-1"), Num("10"), Str("5"), Str("-1"), Str("abc")}

IndexPaymentCreate ==
  /\ running = "index.js"
  /\ \E apiKey \in ApiKeys, amount \in Amounts :
       indexPaymentCreate([apiKey |-> apiKey, amount |-> amount])
  /\ UNCHANGED hostVars

IndexPaymentExecute ==
  /\ running = "index.js"
  /\ \E apiKey \in ApiKeys, body \in ExecuteBodies :
       indexPaymentExecute([apiKey |-> apiKey, paymentId |-> body.paymentId,
                            payerId |-> body.payerId])
  /\ UNCHANGED hostVars

IndexPaymentDetails ==
  /\ running = "index.js"
  /\ \E apiKey \in ApiKeys :
       indexPaymentDetails([apiKey |-> apiKey, paymentId |-> PaymentId(1)])
  /\ UNCHANGED hostVars

(***************************************************************************)
(* The index.js server alone.                                              *)
(***************************************************************************)
InitIndex ==
  /\ InitInstance
  /\ encryptionKey = "k1"
  /\ cipherApi = "legacy"
  /\ \E apiKeyRequired \in BOOLEAN : InitServer("index.js", apiKeyRequired)

\* The process runs either server.
InitEither == InitStore \/ InitIndex

NextIndex ==
  \/ IndexTrigger
  \/ SyncDone
  \/ IndexSyncStatus
  \/ IndexPaymentCreate
  \/ IndexPaymentExecute
  \/ IndexPaymentDetails
  \/ PayPalCallback
  \/ TickServer

SpecIndex == InitIndex /\ [][NextIndex]_vars

(***************************************************************************)
(* The sessions of the LegendoSync server: written through POST /trigger,  *)
(* read through GET /session/:sessionId and getSession, removed by         *)
(* cleanup.                                                                *)
(***************************************************************************)
NextServer ==
  \/ PostTrigger
  \/ ExecResume
  \/ GetSessionRoute
  \/ GetSession
  \/ Cleanup
  \/ TickServer

SpecServer == InitStore /\ [][NextServer]_vars

(***************************************************************************)
(* POST /trigger of the two servers.  A timer that is due fires, and time  *)
(* passes: the event loop runs the callback of every timer that is due.    *)
(***************************************************************************)
NextTrigger ==
  \/ PostTrigger
  \/ ExecResume
  \/ IndexTrigger
  \/ SyncDone
  \/ TickServer

SpecTrigger ==
  /\ InitEither
  /\ [][NextTrigger]_vars
  /\ WF_vars(TickServer)
  /\ \A r \in 1..MaxCalls : WF_vars(SyncDoneFor(r))

(***************************************************************************)
(* The payment routes of the two servers.                                  *)
(***************************************************************************)
NextPayments ==
  \/ PaypalCreate
  \/ PaypalExecute
  \/ IndexPaymentCreate
  \/ IndexPaymentExecute
  \/ IndexPaymentDetails
  \/ PayPalCallback

SpecPayments == InitEither /\ [][NextPayments]_vars

(***************************************************************************)
(* Properties of the session routes.                                       *)
(***************************************************************************)
\* The step is a direct call of getSession.
GetSessionStep == resp'.op = "getSession" /\ now' = now

\* The step is the answer of `route` of `server` to a request that the
\* middleware in front of the route has let through.
RouteAnswers(server, route) ==
  /\ resp'.op = "http"
  /\ resp'.server = server
  /\ resp'.route = route
  /\ resp'.code \notin {401, 429}
  /\ now' = now

\* C11: getSession(id) returns null exactly when no session is stored under
\* id (never stored, or removed by cleanup), and otherwise the stored
\* record; GET /session/:sessionId answers 404 in exactly those cases and
\* 200 with the stored record otherwise.
C11_NotFoundExactlyWhenAbsent ==
  [][/\ GetSessionStep =>
          /\ resp'.value.found <=> MapHas(sessions, resp'.sessionId)
          /\ resp'.value.found =>
               resp'.value.value = MapGet(sessions, resp'.sessionId)
     /\ RouteAnswers("LegendoSync", "GET /session/:sessionId") =>
          /\ resp'.code = 404 <=> ~MapHas(sessions, resp'.req)
          /\ resp'.code # 404 =>
               /\ resp'.code = 200
               /\ resp'.body = SessionView(MapGet(sessions, resp'.req))]_vars

\* GET /session/:sessionId has answered 404 for the id of a session that
\* POST /trigger stored and cleanup removed, while another session is stored.
C11_Witness ==
  /\ resp.op = "http"
  /\ resp.route = "GET /session/:sessionId"
  /\ resp.code = 404
  /\ returns[resp.req].gen + returns[resp.req].given > 0
  /\ ~MapHas(sessions, resp.req)
  /\ Len(sessions) > 0

(***************************************************************************)
(* Properties of the vault: failed decryption, nonces.                     *)
(***************************************************************************)
\* What a caller gets who asks for an id that was never stored.
NotFound == getSession(<<>>, NoId)

\* decrypt was called on a record of assetCache with its ciphertext or its
\* tag altered, or on an instance with another key.
FailsAuthentication ==
  /\ resp.op = "decrypt"
  /\ resp.from = "assetCache"
  /\ cipherApi = "legacy"
  /\ resp.changed \in {"encrypted", "authTag"} \/ resp.key # encryptionKey

\* C12: retrieving a stored entry whose decryption fails authentication
\* (tampered data or foreign key) gives the caller the outcome of a
\* retrieval of an id that was never stored, and the decryption error never
\* reaches the caller.
C12_FailedDecryptionLooksAbsent ==
  FailsAuthentication => resp.out # Thrown /\ resp.out = NotFound

\* The nonce a record's ciphertext was produced with: the one createCipher
\* derived from the password.
NonceUsed(rec) == [from |-> "password", of |-> FromHex(rec.encrypted)[2][2]]

\* The nonce stored with a record: the bytes crypto.randomBytes(16) returned.
NonceStored(rec) == [from |-> "randomBytes", of |-> FromHex(rec.iv)]

\* C13: every encrypt call draws a fresh random iv and its cipher operation
\* is parameterised by it: the iv stored with a record is the nonce its
\* ciphertext was produced with, and no two records encrypted under the
\* same key were produced with the same nonce.
C13_FreshNoncePerEncrypt ==
  /\ \A i \in 1..Len(assetCache) :
       NonceUsed(assetCache[i].value) = NonceStored(assetCache[i].value)
  /\ \A i, j \in 1..Len(assetCache) :
       i # j => NonceUsed(assetCache[i].value) # NonceUsed(assetCache[j].value)

\* The step is a read of a session: a direct call of getSession, or a
\* request to GET /session/:sessionId.
ReadStep ==
  \/ GetSessionStep
  \/ resp'.op = "http" /\ resp'.route = "GET /session/:sessionId" /\ now' = now

\* The last operation was a read that returned the session of id.
HasRead(id) ==
  \/ resp.op = "getSession" /\ resp.sessionId = id /\ resp.value.found
  \/ /\ resp.op = "http"
     /\ resp.route = "GET /session/:sessionId"
     /\ resp.req = id
     /\ resp.code = 200

\* C14: a read leaves sessions and assetCache (records and timestamps) as
\* they are, and does not extend a lifetime: a cleanup pass that directly
\* follows the read of a session removes that session when its age is
\* above maxAge.
C14_ReadsChangeNothing ==
  [][/\ ReadStep => sessions' = sessions /\ assetCache' = assetCache
     /\ \A i \in 1..Len(sessions) :
          (/\ CleanupStep
           /\ HasRead(sessions[i].key)
           /\ Expired(sessions[i].value.timestamp, now, resp'.maxAge))
            => ~MapHas(sessions', sessions[i].key)]_vars

\* GET /session/:sessionId has returned a session whose age is above 0 and
\* which is still stored, next to a record of assetCache.
C14_Witness ==
  /\ resp.op = "http"
  /\ Len(assetCache) > 0
  /\ \E i \in 1..Len(sessions) :
       /\ HasRead(sessions[i].key)
       /\ Expired(sessions[i].value.timestamp, now, 0)

(***************************************************************************)
(* Properties of the index.js server.                                      *)
(***************************************************************************)
\* The step is the handling of a request by the index.js server: the
\* request is answered at once, or its handler suspends.
IndexHandles ==
  /\ resp'.op = "await" \/ (resp'.op = "http" /\ resp'.id = 0)
  /\ resp'.server = "index.js"
  /\ now' = now

ProtectedRoutes ==
  {"POST /trigger", "GET /sync/:syncId", "POST /payment/create",
   "POST /payment/execute", "GET /payment/:paymentId"}

\* C15: when REQUIRE_API_KEY is 'true', every request to a protected route
\* of the index.js server that carries no API key or an invalid API key is
\* answered 401 and its route handler is not run: no sync is started and
\* no PayPal call is made.
C15_MissingOrInvalidKeyRejected ==
  [][(/\ IndexHandles
      /\ requireApiKey
      /\ resp'.route \in ProtectedRoutes
      /\ resp'.req.apiKey \in {NoKey, WrongKey})
       => /\ resp'.op = "http"
          /\ resp'.code = 401
          /\ inflight' = inflight
          /\ sdkCalls' = sdkCalls]_vars

\* The members of a sequence.
Range(seq) == {seq[i] : i \in 1..Len(seq)}

\* C16: GET /sync/:syncId answers 404 when syncId is not an id returned by
\* an earlier POST /trigger, and 200 with the status of that sync only for
\* an id that was issued.
C16_UnknownSyncIdNotFound ==
  [][RouteAnswers("index.js", "GET /sync/:syncId") =>
       /\ resp'.req.syncId \notin Range(syncIds) => resp'.code = 404
       /\ resp'.code = 200 => resp'.req.syncId \in Range(syncIds)]_vars

(***************************************************************************)
(* Properties of POST /trigger.                                            *)
(***************************************************************************)
\* The input of the request is missing or the empty string.
MissingOrEmpty(input) == input = Undefined \/ input = <<"string", "">>

\* The step starts nothing and stores nothing.
NoEffect ==
  /\ UNCHANGED <<sessions, assetCache, pending, uuidCtr, returns, calls>>
  /\ UNCHANGED <<inflight, sdkCalls, answered, syncIds>>

\* The input for which the step has started a command or a sync.
StartedInput ==
  CASE resp'.op = "await" -> inflight'[Len(inflight')].data.input
    [] resp'.op = "pending" -> pending'[Len(pending')].input
    [] OTHER -> resp'.input

\* C17: POST /trigger with a missing or empty input is answered 400 and
\* has no effect, in both servers: the requests a server answers at once
\* are those with a missing or empty input, they are answered 400 and
\* nothing is started or stored; whatever is started has an input.
C17_EmptyInputRejected ==
  [][/\ \A server \in {"LegendoSync", "index.js"} :
          (RouteAnswers(server, "POST /trigger") /\ resp'.id = 0)
            => /\ MissingOrEmpty(resp'.req.input)
               /\ resp'.code = 400
               /\ NoEffect
     /\ calls' = calls + 1 => ~MissingOrEmpty(StartedInput)]_vars

\* The LegendoSync server, with a session stored, has answered 400 to a
\* request with an empty input that carried an asset.
C17_Witness ==
  /\ resp.op = "http"
  /\ resp.server = "LegendoSync"
  /\ resp.route = "POST /trigger"
  /\ resp.code = 400
  /\ resp.req.options.assets # <<>>
  /\ Len(sessions) > 0

\* Request number r is a POST /trigger whose handler waits for initSync.
SyncWaiting(r) ==
  \E i \in 1..Len(inflight) : inflight[i].id = r /\ inflight[i].wait = "timer"

\* Request number r has been answered, once, with 200.
AnsweredOk(r) == answered[r] = <<200>>

\* The step sends the response to the request inflight[i].
Answers(i) ==
  /\ Len(inflight') = Len(inflight) - 1
  /\ inflight' = MapDeleteAt(inflight, i)
  /\ resp'.op = "http"
  /\ resp'.id = inflight[i].id

\* C18: every POST /trigger with a non-empty input to the index.js server
\* (with the API key, where one is required) is eventually answered 200
\* with status 'success', the same input and a syncId, and only after the
\* simulated sync has completed, 1000 ms after the request, whatever other
\* trigger requests are in flight.
C18_TriggerEventuallyAnswered ==
  /\ [][(/\ IndexHandles
         /\ resp'.route = "POST /trigger"
         /\ ~(requireApiKey /\ resp'.req.apiKey = NoKey)
         /\ ~MissingOrEmpty(resp'.req.input))
          => /\ resp'.op = "await"
             /\ inflight' = Append(inflight,
                                   [id |-> resp'.id, server |-> "index.js",
                                    route |-> "POST /trigger", wait |-> "timer",
                                    due |-> now + 1000,
                                    data |-> [input |-> resp'.req.input]])]_vars
  /\ [][\A i \in 1..Len(inflight) :
          (Answers(i) /\ inflight[i].wait = "timer")
            => /\ now >= inflight[i].due
               /\ resp'.code = 200
               /\ resp'.body.status = "success"
               /\ resp'.body.input = inflight[i].data.input
               /\ resp'.body.syncId = SyncId(now)
               /\ answered' = [answered EXCEPT ![inflight[i].id] = <<200>>]]_vars
  /\ \A r \in 1..MaxCalls : SyncWaiting(r) ~> AnsweredOk(r)

\* A trigger request has been answered 200 while a later one, made before
\* the answer, is still in flight.
C18_Witness ==
  /\ resp.op = "http"
  /\ resp.server = "index.js"
  /\ resp.route = "POST /trigger"
  /\ resp.code = 200
  /\ \E i \in 1..Len(inflight) :
       inflight[i].wait = "timer" /\ inflight[i].due <= now + SyncDelayMs \div 2

(***************************************************************************)
(* Properties of the payment routes.                                       *)
(***************************************************************************)
\* The step is the handling of a request by `route` of `server`, behind
\* the middleware: the request is answered at once by the handler, or the
\* handler suspends.
Handles(server, route) ==
  /\ resp'.op \in {"await", "http"}
  /\ resp'.server = server
  /\ resp'.route = route
  /\ resp'.op = "http" => resp'.id = 0 /\ resp'.code \notin {401, 429}
  /\ now' = now

\* The amount is missing, or it is a number, or the numeral of a number,
\* that is not above 0.
MissingOrNonPositive(amount) ==
  \/ amount = Undefined
  \/ ~ToNumber(amount).nan /\ ToNumber(amount).val <= 0

\* The id is missing or empty.
MissingId(id) == id = Undefined \/ id = <<"string", "">>

\* The step answers 400 and calls nothing.
Rejected ==
  /\ resp'.op = "http"
  /\ resp'.code = 400
  /\ sdkCalls' = sdkCalls
  /\ inflight' = inflight

ExecuteRoutes ==
  {<<"index.js", "POST /payment/execute">>, <<"LegendoSync", "POST /paypal/execute">>}

\* C19: POST /payment/create with a missing or non-positive amount, and
\* POST /payment/execute and POST /paypal/execute with a missing paymentId
\* or payerId, are answered 400 without a call to the PayPal SDK; every
\* call these routes make to the PayPal SDK is made with an amount above 0,
\* respectively with both ids.
C19_ValidationBeforePayPal ==
  [][/\ (/\ Handles("index.js", "POST /payment/create")
         /\ MissingOrNonPositive(resp'.req.amount)) => Rejected
     /\ \A sr \in ExecuteRoutes :
          (/\ Handles(sr[1], sr[2])
           /\ MissingId(resp'.req.paymentId) \/ MissingId(resp'.req.payerId))
            => Rejected
     /\ \A c \in sdkCalls' \ sdkCalls :
          /\ (c.server = "index.js" /\ c.method = "payment.create")
               => /\ c.args.total[1] = "number"
                  /\ ToNumber(c.args.total).val > 0
          /\ c.method = "payment.execute"
               => ~MissingId(c.args.paymentId) /\ ~MissingId(c.args.payerId)]_vars

\* POST /payment/create has called PayPal for one request and has answered
\* 400 to a later request with a negative amount.
C19_Witness ==
  /\ resp.op = "http"
  /\ resp.route = "POST /payment/create"
  /\ resp.code = 400
  /\ resp.req.amount = <<"number", "-1">>
  /\ \E c \in sdkCalls : c.server = "index.js" /\ c.method = "payment.create"

CreateRoutes ==
  {<<"index.js", "POST /payment/create">>, <<"LegendoSync", "POST /paypal/create">>}

\* Request r is a payment creation that waits for PayPal's callback.
CreationWaiting(r) ==
  \E i \in 1..Len(inflight) :
    /\ inflight[i].id = r
    /\ <<inflight[i].server, inflight[i].route>> \in CreateRoutes

\* The step is PayPal's callback for request r, reporting `outcome`.
CallbackFires(r, outcome) ==
  \E i \in 1..Len(inflight) : inflight[i].id = r /\ paypalCallback(i, outcome)

\* The step sends the response `code` to request r, its only one.
OnlyAnswer(r, code) ==
  /\ resp'.op = "http"
  /\ resp'.id = r
  /\ resp'.code = code
  /\ answered'[r] = <<code>>
  /\ ~(\E i \in 1..Len(inflight') : inflight'[i].id = r)

Spread(base, over) == over @@ base

\* GET /health of the LegendoSync server, behind the rate limiter:
\* res.json({status: 'healthy', service, version, ...status}) with status
\* the result of getVaultStatus().
healthRoute(consume) ==
  LET route == "GET /health"
  IN respond(IF consume = "rejected" THEN TooManyRequests(route, Undefined)
             ELSE Response("LegendoSync", route, 0, Undefined, 200,
                           Spread([status |-> "healthy",
                                   service |-> "LEGENDO SYNC",
                                   version |-> "1.0.0"],
                                  getVaultStatus)))

\* GET /health of index.js, which no middleware guards.
indexHealth ==
  respond(Response("index.js", "GET /health", 0, Undefined, 200,
                   [status |-> "healthy", service |-> "LEGENDO SYNC"]))

HealthRoute ==
  /\ running = "LegendoSync"
  /\ \E consume \in ConsumeOutcomes : healthRoute(consume)
  /\ UNCHANGED hostVars

IndexHealth ==
  /\ running = "index.js"
  /\ indexHealth
  /\ UNCHANGED hostVars

\* The health routes, next to the requests that fill sessions and
\* assetCache.
NextHealth ==
  \/ PostTrigger
  \/ ExecResume
  \/ HealthRoute
  \/ IndexHealth

SpecHealth == InitEither /\ [][NextHealth]_vars

(***************************************************************************)
(* Properties of GET /health.                                              *)
(***************************************************************************)
\* C21: GET /health answers 200 with status 'healthy' in both servers,
\* whatever sessions and assetCache hold; the body of the LegendoSync
\* server also carries activeSessions and cachedAssets, the sizes of the
\* two maps.
C21_HealthAlwaysHealthy ==
  (resp.op = "http" /\ resp.route = "GET /health" /\ resp.code # 429)
    => /\ resp.code = 200
       /\ resp.body.status = "healthy"
       /\ resp.server = "LegendoSync"
            => /\ resp.body.activeSessions = Len(sessions)
               /\ resp.body.cachedAssets = Len(assetCache)

(***************************************************************************)
(* The rate limiter of the LegendoSync server: a RateLimiterMemory with    *)
(* points: 10 and duration: 60, asked by the first middleware for one      *)
(* point per request, under the key req.ip.  The limiter counts in fixed   *)
(* windows: the first consume of a key stores a record that expires        *)
(* `duration` seconds later, every consume before the expiry adds to the   *)
(* record, and the promise rejects when the record's value exceeds         *)
(* `points`.                                                               *)
(***************************************************************************)
Points == 10
DurationSec == 60
DurationMs == DurationSec * 1000

\* A limiter that rejects the request that uses the last point.
consumeRejectsAtLimit(store, key, t) ==
  LET rec == store[key]
      live == rec # NoRecord /\ rec.expiresAt - t > 0
      new == IF live THEN [rec EXCEPT !.value = @ + 1]
             ELSE [value |-> 1, expiresAt |-> t + DurationMs]
  IN [store |-> [store EXCEPT ![key] = new],
      outcome |-> IF new.value >= Points THEN "rejected" ELSE "resolved"]

\* rateLimiter.consume(key) at time t: the store afterwards and the
\* outcome of the promise.
consume(store, key, t) ==
  LET rec == store[key]
      live == rec # NoRecord /\ rec.expiresAt - t > 0
      new == IF live THEN [rec EXCEPT !.value = @ + 1]
             ELSE [value |-> 1, expiresAt |-> t + DurationMs]
  IN [store |-> [store EXCEPT ![key] = new],
      outcome |-> IF new.value > Points THEN "rejected" ELSE "resolved"]

\* The requests of address ip among the first n of the log.
RequestsOf(ip, n) == {i \in 1..n : requestLog[i].ip = ip}

\* A request from address ip passes the rate limiting middleware, which
\* answers 429 or calls next(): outcome is the outcome of consume, which
\* the route behind the middleware is given.  In one run the first address
\* sends its requests before the other address sends any.
throughLimiter(ip, outcome) ==
  LET r == consume(rateLimiter, ip, now)
      sent(a) == Cardinality(RequestsOf(a, Len(requestLog)))
  IN /\ IF ip = "ip1"
        THEN sent(ip) < MaxRequests /\ \A a \in Ips \ {ip} : sent(a) = 0
        ELSE sent(ip) < MaxOtherIp
     /\ outcome = r.outcome
     /\ rateLimiter' = r.store
     /\ requestLog' = Append(requestLog, [ip |-> ip, at |-> now, outcome |-> r.outcome])
     /\ proc' = proc

LimitedHealth ==
  /\ running = "LegendoSync"
  /\ \E ip \in Ips, c \in ConsumeOutcomes :
       /\ throughLimiter(ip, c)
       /\ healthRoute(c)

\* POST /trigger with a command that stores an asset and a session.
LimitedTrigger ==
  /\ running = "LegendoSync"
  /\ \E ip \in Ips, c \in ConsumeOutcomes :
       /\ throughLimiter(ip, c)
       /\ c = "resolved" => calls < MaxLimitedCalls
       /\ postTrigger(Req(Str("sync_assets "), NoId, <<A1>>, "none"), <<"iv1">>, c)

LimitedPaypalCreate ==
  /\ running = "LegendoSync"
  /\ \E ip \in Ips, c \in ConsumeOutcomes :
       /\ throughLimiter(ip, c)
       /\ c = "resolved" => calls < MaxLimitedCalls
       /\ paypalCreate([total |-> Str("10.00")], c)

LimiterTickMs == DurationMs \div 2

TickLimiter ==
  /\ now < MaxLimiterTicks * LimiterTickMs
  /\ now' = now + LimiterTickMs
  /\ UNCHANGED <<encryptionKey, cipherApi, sessions, assetCache, uuidCtr,
                 pending, timerDue, resp, returns, calls>>
  /\ UNCHANGED serverVars
  /\ UNCHANGED hostVars

NextLimiter ==
  \/ LimitedHealth
  \/ LimitedTrigger
  \/ LimitedPaypalCreate
  \/ ExecResume
  \/ TickLimiter

SpecLimiter == InitStore /\ [][NextLimiter]_vars

(***************************************************************************)
(* Properties of the rate limiter.                                         *)
(***************************************************************************)
\* The window that request i of the log falls in, and its place in it: a
\* window of an address begins with its first request, or with its first
\* request 60 seconds or more after the window before began.
RECURSIVE WindowAt(_, _, _)
WindowAt(log, ip, i) ==
  IF i = 0 THEN [open |-> FALSE, start |-> 0, place |-> 0]
  ELSE LET w == WindowAt(log, ip, i - 1)
           e == log[i]
       IN IF e.ip # ip THEN w
          ELSE IF w.open /\ e.at < w.start + 60000
               THEN [w EXCEPT !.place = @ + 1]
               ELSE [open |-> TRUE, start |-> e.at, place |-> 1]

\* The step handles a request, the last of the log after the step.
RequestStep == Len(requestLog') = Len(requestLog) + 1

LastRequest == requestLog'[Len(requestLog')]

\* C22: from any single IP address at most 10 requests are admitted in
\* any one window of the limiter, the 60 seconds that begin with the
\* address's first request or with its first request after the window
\* before has ended: the first 10 requests of a window are admitted, and
\* each further request of the window is answered 429 'Too Many Requests'
\* without reaching a route handler, so it changes neither sessions nor
\* assetCache and makes no call to PayPal.
C22_AtMostTenPerWindow ==
  [][RequestStep =>
       /\ LastRequest.outcome = "resolved"
            <=> WindowAt(requestLog', LastRequest.ip, Len(requestLog')).place <= 10
       /\ LastRequest.outcome = "rejected"
            => /\ resp'.op = "http"
               /\ resp'.code = 429
               /\ resp'.body.error = "Too Many Requests"
               /\ UNCHANGED <<sessions, assetCache, pending, inflight, sdkCalls,
                              calls, uuidCtr>>]_vars

\* The requests of address ip that were admitted.
AdmittedOf(ip) ==
  {i \in RequestsOf(ip, Len(requestLog)) : requestLog[i].outcome = "resolved"}

\* C22 as stated: from any single IP address at most 10 requests are
\* admitted in any 60-second period, that is, of 11 admitted requests the
\* last comes 60 seconds or more after the first.
C22_AtMostTenInAnyPeriod ==
  \A ip \in Ips :
    \A i, j \in AdmittedOf(ip) :
      Cardinality({k \in AdmittedOf(ip) : i <= k /\ k <= j}) > 10
        => requestLog[j].at - requestLog[i].at >= 60000

\* A POST /trigger of the first address has stored an asset and a session,
\* a later request of that address has been rejected, and after it a GET
\* /health of the other address has been admitted and answered 200.
C22_Witness ==
  /\ Len(sessions) > 0
  /\ Len(assetCache) > 0
  /\ sdkCalls = {}
  /\ \E i \in 1..Len(requestLog) :
       /\ requestLog[i].ip = "ip1"
       /\ requestLog[i].outcome = "rejected"
       /\ \E j \in (i + 1)..Len(requestLog) :
            requestLog[j].ip = "ip2" /\ requestLog[j].outcome = "resolved"
  /\ requestLog[Len(requestLog)].ip = "ip2"
  /\ resp.op = "http"
  /\ resp.route = "GET /health"
  /\ resp.code = 200

(***************************************************************************)
(* Reads next to the sweeper: getSession is called while the setInterval   *)
(* callback is the only caller of cleanup.                                 *)
(***************************************************************************)
NextRace ==
  \/ TimerStart
  \/ ExecResume
  \/ GetSession
  \/ TimerFire
  \/ TickTimer

SpecRace == InitStore /\ [][NextRace]_vars

\* Entry i of sessions is older than the sweeper's maxAge of one hour.
AgedOut(i) == now - sessions[i].value.timestamp[2] > 3600000

\* C23: getSession makes no age test: a stored session whose age already
\* exceeds maxAge, and which no cleanup pass has removed yet, is returned
\* by getSession as a valid record, and the read leaves it stored; there
\* are reachable states in which this happens.
C23_ExpiredUnsweptEntryIsRead ==
  [][GetSessionStep =>
       \A i \in 1..Len(sessions) :
         (sessions[i].key = resp'.sessionId /\ AgedOut(i))
           => /\ resp'.value.found
              /\ resp'.value.value = sessions[i].value
              /\ sessions' = sessions]_vars

\* getSession has returned a session that is older than one hour; the
\* session is still stored, and the next pass of the sweeper is not due yet.
C23_Witness ==
  /\ resp.op = "getSession"
  /\ resp.value.found
  /\ now < timerDue
  /\ \E i \in 1..Len(sessions) :
       /\ sessions[i].key = resp.sessionId
       /\ sessions[i].value = resp.value.value
       /\ AgedOut(i)

(***************************************************************************)
(* cleanup(maxAge) with a maxAge that is an object: each comparison        *)
(* `age > maxAge` converts it with its valueOf method, which may throw.    *)
(* Nothing in cleanup catches: the exception leaves the loop and the       *)
(* method.                                                                 *)
(***************************************************************************)
\* The sweep of map m from index i, while the next `left` conversions of
\* maxAge return n and the one after them throws.
RECURSIVE sweepConverting(_, _, _, _, _)
sweepConverting(m, i, t, n, left) ==
  IF i > Len(m) THEN [map |-> m, threw |-> FALSE, left |-> left]
  ELSE IF left = 0 THEN [map |-> m, threw |-> TRUE, left |-> 0]
  ELSE IF Expired(m[i].value.timestamp, t, n)
       THEN sweepConverting(MapDeleteAt(m, i), i, t, n, left - 1)
       ELSE sweepConverting(m, i + 1, t, n, left - 1)

\* cleanup(maxAge), where maxAge.valueOf() returns n and throws when it is
\* called for the throwsAt-th time.  The response records whether the call
\* threw to its caller (not in the program).
cleanupConverting(n, throwsAt) ==
  LET s == sweepConverting(sessions, 1, now, n, throwsAt - 1)
      a == sweepConverting(assetCache, 1, now, n, s.left)
  IN /\ sessions' = s.map
     /\ assetCache' = IF s.threw THEN assetCache ELSE a.map
     /\ resp' = [op |-> "cleanup(object)", maxAge |-> n, at |-> now,
                 threw |-> s.threw \/ a.threw]
     /\ UNCHANGED <<now, encryptionKey, cipherApi, uuidCtr, pending, returns,
                    calls, timerDue>>
     /\ UNCHANGED serverVars

\* A call of the public method with such an object.
CleanupConverting ==
  /\ \E n \in MaxAges :
       \E throwsAt \in 1..(MaxCalls + 1) :
         cleanupConverting(n, throwsAt)
  /\ UNCHANGED hostVars

NextSweep ==
  \/ TimerStart
  \/ ExecResume
  \/ TimerSync
  \/ Tick
  \/ Cleanup
  \/ CleanupConverting

SpecSweep == InitStore /\ [][NextSweep]_vars

\* C24: if the handling of one entry throws during a cleanup pass, the
\* pass still examines the remaining entries of sessions and of assetCache
\* and removes those whose age exceeds maxAge, and the failure does not
\* reach the caller.  (A pass handles at most one entry more than the
\* entries that are left after it, the one whose handling threw.)
C24_SweepFailureIsolated ==
  resp.op = "cleanup(object)"
    => /\ ~resp.threw
       /\ Cardinality({i \in 1..Len(sessions) :
                         Expired(sessions[i].value.timestamp, resp.at, resp.maxAge)})
          + Cardinality({i \in 1..Len(assetCache) :
                           Expired(assetCache[i].value.timestamp, resp.at, resp.maxAge)})
          <= 1

(***************************************************************************)
(* The thread of the process.  cleanup is a synchronous method: its two    *)
(* loops are two steps of one job, and JavaScript starts another job (a    *)
(* request handler, the continuation of an await, a timer callback) only   *)
(* when the running one has returned.                                      *)
(***************************************************************************)
\* Another job may start at any time.
Preemptible == TRUE

\* The call stack is empty: no job is running.
CallStackEmpty == proc.job = <<>>

\* cleanup(maxAge), first loop: const now = Date.now(), then the sweep of
\* sessions.
sweepSessions(maxAge) ==
  /\ CallStackEmpty
  /\ sessions' = sweep(sessions, now, maxAge)
  /\ proc' = [proc EXCEPT !.job = <<[maxAge |-> maxAge, at |-> now]>>]
  /\ UNCHANGED <<now, encryptionKey, cipherApi, assetCache, uuidCtr, pending,
                 timerDue, resp, returns, calls>>
  /\ UNCHANGED serverVars

\* cleanup(maxAge), second loop and the log line; the method returns.
sweepAssetCache ==
  /\ ~CallStackEmpty
  /\ LET job == proc.job[1]
     IN /\ assetCache' = sweep(assetCache, job.at, job.maxAge)
        /\ resp' = [op |-> "cleanup", maxAge |-> job.maxAge, at |-> job.at,
                    after |-> LastCleanup,
                    activeSessions |-> Len(sessions), cachedAssets |-> Len(assetCache')]
  /\ proc' = [proc EXCEPT !.job = <<>>]
  /\ UNCHANGED <<now, encryptionKey, cipherApi, sessions, uuidCtr, pending,
                 timerDue, returns, calls>>
  /\ UNCHANGED serverVars

\* A caller of cleanup: the pass begins, and it ends.
SweepSessions ==
  /\ \E maxAge \in MaxAges : sweepSessions(maxAge)
  /\ UNCHANGED <<rateLimiter, requestLog>>

SweepAssetCache ==
  /\ sweepAssetCache
  /\ UNCHANGED <<rateLimiter, requestLog>>

\* executeAI is called: with a plain command, or with VAULT_STATUS, which
\* calls getVaultStatus.
JobRequests ==
  {Req(<<"string", "hello">>, NoId, <<>>, "none"),
   Req(<<"string", "VAULT_STATUS">>, NoId, <<>>, "none")}

JobExecuteAI ==
  /\ CallStackEmpty
  /\ execStart(JobRequests, {"iv1"})
  /\ UNCHANGED hostVars

\* An executeAI call resumes from its await.
JobResume ==
  /\ CallStackEmpty
  /\ ExecResume

JobSyncAssets ==
  /\ CallStackEmpty
  /\ TimerSync

JobGetSession ==
  /\ CallStackEmpty
  /\ GetSession

NextJobs ==
  \/ JobExecuteAI
  \/ JobResume
  \/ JobSyncAssets
  \/ JobGetSession
  \/ SweepSessions
  \/ SweepAssetCache
  \/ Tick

SpecJobs == InitStore /\ [][NextJobs]_vars

(***************************************************************************)
(* Properties of the cleanup pass among the jobs of the process.           *)
(***************************************************************************)
\* The step is a step of executeAI, syncAssets, getSession or
\* getVaultStatus (which the VAULT_STATUS command calls).
CallerStep ==
  /\ resp' # resp
  /\ resp'.op \in {"pending", "executeAI", "syncAssets", "getSession"}

\* A cleanup pass has swept sessions and not yet assetCache.
MidPass == proc.job # <<>>

\* Map m holds no entry that the pass begun at `at` with maxAge removes.
Swept(m, at, maxAge) ==
  \A i \in 1..Len(m) : ~(at - m[i].value.timestamp[2] > maxAge)

\* C25: no step of executeAI, syncAssets, getSession or getVaultStatus
\* runs between the start and the end of a cleanup pass, so none of them
\* sees sessions swept and assetCache not yet swept; a suspended executeAI
\* call stores its session before or after the pass, and so at the end of
\* a pass neither map holds an entry that was expired when the pass began.
C25_CleanupPassAtomic ==
  [][/\ CallerStep => ~MidPass /\ proc'.job = <<>>
     /\ MidPass /\ proc'.job = <<>>
          => /\ Swept(sessions', proc.job[1].at, proc.job[1].maxAge)
             /\ Swept(assetCache', proc.job[1].at, proc.job[1].maxAge)]_vars

\* A pass has removed a session and an asset that a call made before it
\* had stored, while an executeAI call was suspended at its await.
C25_Witness ==
  /\ resp.op = "cleanup"
  /\ ~MidPass
  /\ Len(pending) > 0
  /\ \E id \in IdUniverse : returns[id].gen > 0
  /\ sessions = <<>>
  /\ assetCache = <<>>

(***************************************************************************)
(* executeAI calls that fail, next to calls that succeed, under an id the  *)
(* caller chose.                                                           *)
(***************************************************************************)
ErrorRequests ==
  {Req(<<"string", "hello">>, CustomId, <<>>, "none"),
   Req(<<"string", "">>, CustomId, <<>>, "none"),
   Req(<<"number", "5">>, CustomId, <<>>, "none"),
   Req(<<"string", "">>, NoId, <<>>, "none"),
   Req(<<"string", "PAYPAL_INJECT">>, CustomId, <<>>, "createPayment")}

ErrorStart ==
  /\ execStart(ErrorRequests, {"iv1"})
  /\ UNCHANGED hostVars

NextErrors ==
  \/ ErrorStart
  \/ ExecResume
  \/ Tick

SpecErrors == InitStore /\ [][NextErrors]_vars

\* The step is a step of an executeAI call in which the call resolves with
\* status 'error'.
ResolvesWithError ==
  /\ calls' # calls \/ pending' # pending
  /\ resp'.op = "executeAI"
  /\ resp'.status = "error"

\* The step is the start of an executeAI call that suspends at its await.
Suspends == calls' # calls /\ resp'.op = "pending"

\* C26: an executeAI call that resolves with status 'error' (an invalid
\* input, or a PayPal call that is rejected) changes nothing in sessions,
\* neither when it starts nor when it resolves: no session is created
\* under the returned sessionId, and a session stored under that id keeps
\* its record and its timestamp.
C26_ErrorLeavesSessions ==
  [][/\ Suspends => sessions' = sessions
     /\ ResolvesWithError
          => /\ sessions' = sessions
             /\ MapHas(sessions', resp'.sessionId) <=> MapHas(sessions, resp'.sessionId)
             /\ MapHas(sessions, resp'.sessionId)
                  => MapGet(sessions', resp'.sessionId) = MapGet(sessions, resp'.sessionId)]_vars

\* A PAYPAL_INJECT call under the caller's id has resolved with an error
\* after its PayPal call was rejected; the session stored earlier under
\* that id is still there.
C26_Witness ==
  /\ resp.op = "executeAI"
  /\ resp.status = "error"
  /\ resp.input = <<"string", "PAYPAL_INJECT">>
  /\ resp.sessionId = CustomId
  /\ MapHas(sessions, CustomId)
  /\ MapGet(sessions, CustomId).input = <<"string", "hello">>
  /\ MapGet(sessions, CustomId).timestamp[2] < now

(***************************************************************************)
(* executeAI called with every kind of options argument: left out, null,   *)
(* or an object.                                                           *)
(***************************************************************************)
\* The options argument of a call: undefined when it is left out, null, or
\* an object with its fields.
OptionsArgs ==
  {[kind |-> "undefined"], [kind |-> "null"]}
    \cup {[kind |-> "object", value |-> req.options] :
            req \in {Req(<<"string", "hello">>, NoId, <<>>, "none"),
                     Req(<<"string", "hello">>, CustomId, <<>>, "none"),
                     Req(<<"string", "sync_assets ">>, NoId, <<A1>>, "none"),
                     Req(<<"string", "PAYPAL_INJECT">>, NoId, <<>>, "createPayment")}}

OptionsInputs ==
  {<<"string", "hello">>, <<"string", "sync_assets ">>, <<"string", "PAYPAL_INJECT">>,
   <<"string", "">>, <<"number", "5">>}

\* async executeAI(input, options = {}): the default replaces an argument
\* that is undefined, and only that one.  options.sessionId is read before
\* the try block is entered: with options null the read throws a TypeError
\* that no catch block of the method sees, and the promise of the async
\* function is rejected with it.
executeAIWithOptions(input, arg, ivs) ==
  CASE arg.kind = "undefined" ->
         executeAI(input, [sessionId |-> NoId, assets |-> <<>>, paypalData |-> "none"], ivs)
    [] arg.kind = "null" ->
         /\ calls < MaxCalls
         /\ calls' = calls + 1
         /\ resp' = [op |-> "executeAI", status |-> "rejected",
                     error |-> "TypeError", input |-> input]
         /\ UNCHANGED <<now, encryptionKey, cipherApi, sessions, assetCache, uuidCtr,
                        pending, timerDue, returns>>
    [] OTHER -> executeAI(input, arg.value, ivs)

OptionsStart ==
  /\ \E input \in OptionsInputs :
       \E arg \in OptionsArgs :
         \E ivs \in [1..(IF arg.kind = "object" THEN Len(arg.value.assets) ELSE 0)
                       -> {"iv1"}] :
           executeAIWithOptions(input, arg, ivs)
  /\ UNCHANGED serverVars
  /\ UNCHANGED hostVars

NextOptions ==
  \/ OptionsStart
  \/ ExecResume
  \/ Tick

SpecOptions == InitStore /\ [][NextOptions]_vars

\* C27: whatever input and options a caller passes (options left out, null,
\* or an object), the promise executeAI returns is not rejected: a call that
\* has settled has resolved to an object whose status is 'success' or
\* 'error' and that carries a sessionId.
C27_NeverRejects ==
  resp.op = "executeAI"
    => /\ resp.status \in {"success", "error"}
       /\ "sessionId" \in DOMAIN resp
       /\ resp.sessionId # NoId

\* The same for the calls whose options argument is not null.
C27_ResolvesUnlessNull ==
  (resp.op = "executeAI" /\ resp.status # "rejected")
    => /\ resp.status \in {"success", "error"}
       /\ resp.sessionId \in IdUniverse

(***************************************************************************)
(* syncAssets called on arrays in which assets that can be synced and      *)
(* assets that cannot follow each other in every order.                    *)
(***************************************************************************)
SyncLists ==
  {<<>>, <<A1>>, <<Circular>>, <<Circular, A1>>, <<A1, Circular, A1>>, <<A1, A1, Circular>>}

SyncListsCall ==
  /\ syncAssetsCall(SyncLists, {"iv1"})
  /\ UNCHANGED hostVars

NextSync ==
  \/ SyncListsCall
  \/ Tick

SpecSync == Init /\ [][NextSync]_vars

\* The step is a call of syncAssets.
SyncStep == calls' # calls /\ resp'.op = "syncAssets"

\* The asset cannot be synced: JSON.stringify or encrypt throws for it.
AssetFails(asset) == StringifyThrows(asset) \/ EncryptThrows(cipherApi)

SyncedAt(results) == {i \in 1..Len(results) : results[i].status = "synced"}

\* C28: a call syncAssets(assets) returns one result per asset, in the
\* order of the assets (a failed result carries its asset, a synced one the
\* hash of its asset, and an asset fails only when it cannot be serialised
\* or encrypted, whatever happened to the assets before it);
\* totalAssets = assets.length = syncedAssets + failedAssets; assetCache
\* gains exactly one entry per synced asset, under assetIds that are
\* pairwise distinct and were not in the cache; and every entry that was in
\* the cache before the call is still there, unchanged.
C28_SyncAssetsAccounting ==
  [][SyncStep =>
       LET assets == resp'.assets
           value == resp'.value
           results == value.results
           synced == SyncedAt(results)
       IN /\ Len(results) = Len(assets)
          /\ \A i \in 1..Len(assets) :
               IF AssetFails(assets[i])
               THEN results[i].status = "failed" /\ results[i].asset = assets[i]
               ELSE /\ results[i].status = "synced"
                    /\ results[i].hash = Sha256(JsonStringify(assets[i]))
          /\ value.totalAssets = Len(assets)
          /\ value.totalAssets = value.syncedAssets + value.failedAssets
          /\ value.syncedAssets = Cardinality(synced)
          /\ Len(assetCache') = Len(assetCache) + value.syncedAssets
          /\ \A i, j \in synced : i # j => results[i].assetId # results[j].assetId
          /\ MapKeys(assetCache') \ MapKeys(assetCache)
               = {results[i].assetId : i \in synced}
          /\ \A i \in synced :
               MapGet(assetCache', results[i].assetId).originalHash = results[i].hash
          /\ \A k \in MapKeys(assetCache) :
               MapHas(assetCache', k) /\ MapGet(assetCache', k) = MapGet(assetCache, k)]_vars

\* A second call has synced the first and the third of its three assets
\* and failed the one between them, next to the entry of the first call.
C28_Witness ==
  /\ resp.op = "syncAssets"
  /\ resp.assets = <<A1, Circular, A1>>
  /\ resp.value.syncedAssets = 2
  /\ resp.value.failedAssets = 1
  /\ resp.value.results[3].status = "synced"
  /\ Len(assetCache) = 3
  /\ calls = 2

(***************************************************************************)
(* Shutdown of the index.js server.  proc.signals are the signals          *)
(* received, proc.timers the due times of the forced-exit timers that are  *)
(* set, proc.exit the exit code and the time of the exit.                  *)
(***************************************************************************)
ForceExitMs == 10000
ShutdownTickMs == ForceExitMs \div 2
ShutdownSignals == {"SIGTERM", "SIGINT"}

\* The process has not exited.
Running == proc.exit = <<>>

\* A handler that clears the timer of an earlier signal before it sets its
\* own.
gracefulShutdownRearming(signal) ==
  /\ proc' = [proc EXCEPT !.signals = Append(@, [signal |-> signal, at |-> now]),
                          !.closing = TRUE,
                          !.timers = <<now + ForceExitMs>>]
  /\ resp' = [op |-> "gracefulShutdown", signal |-> signal, at |-> now]
  /\ UNCHANGED <<now, encryptionKey, cipherApi, sessions, assetCache, uuidCtr,
                 pending, timerDue, returns, calls, rateLimiter, requestLog>>
  /\ UNCHANGED serverVars

\* gracefulShutdown(signal): server.close(callback) stops the server from
\* accepting connections and registers the callback for the 'close' event;
\* the setTimeout sets one more timer, and no timer is cleared.
gracefulShutdown(signal) ==
  /\ proc' = [proc EXCEPT !.signals = Append(@, [signal |-> signal, at |-> now]),
                          !.closing = TRUE,
                          !.timers = Append(@, now + ForceExitMs)]
  /\ resp' = [op |-> "gracefulShutdown", signal |-> signal, at |-> now]
  /\ UNCHANGED <<now, encryptionKey, cipherApi, sessions, assetCache, uuidCtr,
                 pending, timerDue, returns, calls, rateLimiter, requestLog>>
  /\ UNCHANGED serverVars

\* process.exit(code)
processExit(code) ==
  /\ resp' = [op |-> "exit", code |-> code, at |-> now]
  /\ UNCHANGED <<now, encryptionKey, cipherApi, sessions, assetCache, uuidCtr,
                 pending, timerDue, returns, calls, rateLimiter, requestLog>>
  /\ UNCHANGED serverVars

\* process.on('SIGTERM' | 'SIGINT', ...): the process receives a signal.
Signal ==
  /\ running = "index.js"
  /\ Running
  /\ Len(proc.signals) < MaxSignals
  /\ \E signal \in ShutdownSignals : gracefulShutdown(signal)

\* The server emits 'close' once it has stopped listening and its last
\* connection has ended (a connection may stay open for as long as its
\* client likes); the first callback registered for the event exits.
ServerClosed ==
  /\ Running
  /\ proc.closing
  /\ inflight = <<>>
  /\ proc' = [proc EXCEPT !.closed = TRUE, !.exit = <<0, now>>]
  /\ processExit(0)

\* The callback of the forced-exit timer that is due first runs.
ForcedExit ==
  /\ Running
  /\ proc.timers # <<>>
  /\ now >= proc.timers[1]
  /\ proc' = [proc EXCEPT !.timers = Tail(@), !.exit = <<1, now>>]
  /\ processExit(1)

\* A request arrives at the running process, also on a connection that is
\* still open after server.close.
ShutdownTrigger ==
  /\ Running
  /\ indexTrigger([apiKey |-> Str("client-key"), input |-> Str("hello")])
  /\ UNCHANGED hostVars

ShutdownSyncDone ==
  /\ Running
  /\ SyncDone

\* Time passes while the process runs; it does not stop while a timer is
\* waiting, and the callback of a due timer is at most MaxLate steps late.
TickShutdown ==
  /\ Running
  /\ \/ now < MaxShutdownTicks * ShutdownTickMs
     \/ proc.timers # <<>> /\ proc.timers[1] > now
  /\ \A i \in 1..Len(proc.timers) :
       now + ShutdownTickMs <= proc.timers[i] + MaxLate * ShutdownTickMs
  /\ now' = now + ShutdownTickMs
  /\ UNCHANGED <<encryptionKey, cipherApi, sessions, assetCache, uuidCtr,
                 pending, timerDue, resp, returns, calls>>
  /\ UNCHANGED serverVars
  /\ UNCHANGED hostVars

NextShutdown ==
  \/ Signal
  \/ ServerClosed
  \/ ForcedExit
  \/ ShutdownTrigger
  \/ ShutdownSyncDone
  \/ TickShutdown

\* The event loop: time passes, and the callback of a due timer is run.
\* Nothing makes the server's last connection end.
SpecShutdown ==
  /\ InitIndex
  /\ [][NextShutdown]_vars
  /\ WF_vars(TickShutdown)
  /\ WF_vars(ForcedExit)

FirstSignalAt == proc.signals[1].at

\* The latest time at which the callback of the timer set by the first
\* signal runs.
ExitDeadline == FirstSignalAt + ForceExitMs + MaxLate * ShutdownTickMs

C30_SyncIdsDistinct ==
  running = "index.js"
    => \A i, j \in 1..Len(syncIds) : i # j => syncIds[i] # syncIds[j]

=============================================================================
